---- MODULE Spec2Model ----
(***************************************************************************)
(* footprint-metric-adapters: the three window strategies (RingBuffer,     *)
(* TumblingWindow, SlidingWindow), the percentile utility they share and   *)
(* the MetricCollector recorder that feeds a strategy.                     *)
(*                                                                         *)
(* Numbers: sample values and timestamps are integers.  A percentile is a  *)
(* linear interpolation with a weight that is a multiple of 1/100, so the  *)
(* fields p50, p95 and p99 of a PercentileResult are kept in hundredths    *)
(* (p50 = 2500 stands for 25.00); mean is kept as the pair sum / count.    *)
(***************************************************************************)
EXTENDS Integers, Sequences, FiniteSets, TLC

VARIABLES
    strategy,   \* the WindowStrategy instance: a record of its private fields
    status,     \* "ok" | "rejected" (the constructor threw) | "hung" (a call never returns)
    now,        \* Date.now()
    lastOp,     \* the call made last: "constructor", "push", "query", "getConfig", "clear", ...
    hist,       \* history: the entries a direct caller pushed since construction or the last clear()
    disturbed,  \* history: a direct caller has called flushCurrentBucket() or clear()
    pushes,     \* history: the number of entries a direct caller pushed since construction
    collector,  \* the MetricCollector instance, NoCollector when the strategy is used directly
    call,       \* the last Recorder hook called on the collector, and how it went
    adapter,    \* the metric adapter whose stages run on the strategy, NoAdapter when there is none
    tree        \* the ExecutionTree instance, NoTree when there is none

vars == <<strategy, status, now, lastOp, hist, disturbed, pushes, collector, call, adapter, tree>>

----------------------------------------------------------------------------
(* Bounds of the model *)

\* The clock and the timestamps of entries range over 0..MaxTime.
MaxTime == 3

\* At most MaxPushes entries are pushed to an instance; to a TumblingWindowStrategy,
\* whose archive keeps the entries of the closed buckets, at most MaxTumblingPushes.
MaxPushes == 3

MaxTumblingPushes == 2

\* Entries a collector emits between two resets, and how far the clock runs for it.
MaxEmits == 3

MaxBridgeTime == 2

\* Entries handed to computePercentiles when it is called on its own.
MaxSamples == 3

\* push() calls on a ring buffer fed with latency samples.
MaxRingSamples == 4

\* The clock of a tumbling window whose archive fills, and the push() calls on it.
MaxArchiveTime == 12

MaxArchivePushes == 2

\* Runs of an adapter's collect stage, and the entries of one raw input.
MaxCollects == 2

MaxRawEntries == 2

\* Configurations tried: RingBufferStrategy maxSize, windowMs of the two time
\* windows, TumblingWindowStrategy maxArchivedBuckets.
MaxSizes == {1, 2}

WindowMss == {1, 2}

MaxArchivedBucketss == {1, 2}

\* Configurations a caller can also pass: the constructors take any number.
AnyMaxSizes == MaxSizes \cup {0 - 1, 0}

AnyWindowMss == WindowMss \cup {0 - 1, 0}

Times == 0..MaxTime

StageNames == {"A", "B"}

\* The stages whose error, read, write and commit events a collector receives.
ScopeStageNames == {"A"}

\* stageName, metric and value of the entries pushed directly.
Payloads ==
    { <<"A", "latency", 10>>, <<"B", "latency", 30>>, <<"A", "errorCount", 1>> }

MkEntry(s, m, v, t) == [stageName |-> s, metric |-> m, value |-> v, timestamp |-> t]

NoCollector == [absent |-> TRUE]

NoCall == [none |-> TRUE]

NoAdapter == [absent |-> TRUE]

NoTree == [absent |-> TRUE]

----------------------------------------------------------------------------
(* Sequence helpers: Array.prototype.filter / map / sort / reduce *)

\* entries.filter(test) is SelectSeq(entries, test).

RECURSIVE SumSeq(_)
SumSeq(s) == IF s = <<>> THEN 0 ELSE Head(s) + SumSeq(Tail(s))

ValuesOf(s) == [i \in 1..Len(s) |-> s[i].value]

RECURSIVE InsertSorted(_, _)
InsertSorted(x, s) ==
    IF s = <<>> THEN <<x>>
    ELSE IF x < Head(s) THEN <<x>> \o s
         ELSE <<Head(s)>> \o InsertSorted(x, Tail(s))

\* values.sort((a, b) => a - b)
RECURSIVE SortAsc(_)
SortAsc(s) == IF s = <<>> THEN <<>> ELSE InsertSorted(Head(s), SortAsc(Tail(s)))

----------------------------------------------------------------------------
(* strategies/percentile *)

\* percentile(sorted, p) over the reals, in hundredths: the value its expression
\* has before the doubles round it (F64_percentile below is the function on
\* doubles).  index = p/100 * (n-1) is kept as
\* index100 = p * (n-1); lower = floor(index), upper = ceil(index).
percentile(sorted, p) ==
    IF Len(sorted) = 0 THEN 0
    ELSE IF Len(sorted) = 1 THEN 100 * sorted[1]
    ELSE LET index100 == p * (Len(sorted) - 1)
             lower    == index100 \div 100
             upper    == IF index100 % 100 = 0 THEN lower ELSE lower + 1
             weight100 == index100 - 100 * lower
         IN  IF lower = upper THEN 100 * sorted[lower + 1]
             ELSE sorted[lower + 1] * (100 - weight100) + sorted[upper + 1] * weight100

ZeroPercentiles ==
    [min |-> 0, max |-> 0, p50 |-> 0, p95 |-> 0, p99 |-> 0,
     mean |-> <<0, 1>>, count |-> 0]

\* A bug: no early return for an empty list of values.
computePercentiles_noEmptyCase(entries, metric) ==
    LET values == SortAsc(ValuesOf(SelectSeq(entries, LAMBDA e : e.metric = metric)))
        undefined == 0 - 1
    IN  [min   |-> IF Len(values) = 0 THEN undefined ELSE values[1],
         max   |-> IF Len(values) = 0 THEN undefined ELSE values[Len(values)],
         p50   |-> percentile(values, 50),
         p95   |-> percentile(values, 95),
         p99   |-> percentile(values, 99),
         mean  |-> <<SumSeq(values), Len(values)>>,
         count |-> Len(values)]

computePercentiles(entries, metric) ==
    LET values == SortAsc(ValuesOf(SelectSeq(entries, LAMBDA e : e.metric = metric)))
    IN  IF Len(values) = 0 THEN ZeroPercentiles
        ELSE [min   |-> values[1],
              max   |-> values[Len(values)],
              p50   |-> percentile(values, 50),
              p95   |-> percentile(values, 95),
              p99   |-> percentile(values, 99),
              mean  |-> <<SumSeq(values), Len(values)>>,
              count |-> Len(values)]

\* A bug: every stage that has an entry gets a key, whatever the metric.
computeStagePercentiles_anyMetric(entries, metric) ==
    LET stages == { entries[i].stageName : i \in 1..Len(entries) }
    IN  [s \in stages |->
            computePercentiles(
                SelectSeq(entries, LAMBDA e : e.metric = metric /\ e.stageName = s), metric)]

\* Map of stageName -> PercentileResult, as a function on the stages that have an
\* entry of the metric.
computeStagePercentiles(entries, metric) ==
    LET stages == { entries[i].stageName : i \in { j \in 1..Len(entries) : entries[j].metric = metric } }
    IN  [s \in stages |->
            computePercentiles(
                SelectSeq(entries, LAMBDA e : e.metric = metric /\ e.stageName = s), metric)]

\* Map of stageName -> sum of the errorCount values.
computeStageErrors(entries) ==
    LET stages == { entries[i].stageName : i \in { j \in 1..Len(entries) : entries[j].metric = "errorCount" } }
    IN  [s \in stages |->
            SumSeq(ValuesOf(
                SelectSeq(entries, LAMBDA e : e.metric = "errorCount" /\ e.stageName = s)))]

\* entries.filter(e => e.metric === 'errorCount').reduce((sum, e) => sum + e.value, 0)
TotalErrorsOf(entries) ==
    SumSeq(ValuesOf(SelectSeq(entries, LAMBDA e : e.metric = "errorCount")))

\* entries.filter(e => e.metric === 'stageInvocation').length
TotalInvocationsOf(entries) ==
    Len(SelectSeq(entries, LAMBDA e : e.metric = "stageInvocation"))

----------------------------------------------------------------------------
(* JavaScript numbers: IEEE 754 binary64 arithmetic, round to nearest, ties to  *)
(* even.  Only what strategies/percentile needs: numbers >= 0 in the normal     *)
(* range, the operations + - * / and Math.floor.                                *)

\* A natural number of any size is a sequence of limbs < Base, least significant
\* first, without a zero limb at the top (TLC's integers are 32 bits wide).
LimbBits == 7 + 7

Base == 2^LimbBits

RECURSIVE Big_norm(_)
Big_norm(a) ==
    IF a # <<>> /\ a[Len(a)] = 0 THEN Big_norm(SubSeq(a, 1, Len(a) - 1)) ELSE a

RECURSIVE Big_fromInt(_)
Big_fromInt(n) == IF n = 0 THEN <<>> ELSE <<n % Base>> \o Big_fromInt(n \div Base)

RECURSIVE Big_toInt(_)
Big_toInt(a) == IF a = <<>> THEN 0 ELSE Head(a) + Base * Big_toInt(Tail(a))

Limb(a, i) == IF i <= Len(a) THEN a[i] ELSE 0

RECURSIVE Big_addFrom(_, _, _, _)
Big_addFrom(a, b, i, carry) ==
    IF i > Len(a) /\ i > Len(b)
    THEN IF carry = 0 THEN <<>> ELSE <<carry>>
    ELSE LET s == Limb(a, i) + Limb(b, i) + carry
         IN  <<s % Base>> \o Big_addFrom(a, b, i + 1, s \div Base)

Big_add(a, b) == Big_addFrom(a, b, 1, 0)

\* a - b for a >= b
RECURSIVE Big_subFrom(_, _, _, _)
Big_subFrom(a, b, i, borrow) ==
    IF i > Len(a) THEN <<>>
    ELSE LET d == Limb(a, i) - Limb(b, i) - borrow
         IN  IF d < 0 THEN <<d + Base>> \o Big_subFrom(a, b, i + 1, 1)
             ELSE <<d>> \o Big_subFrom(a, b, i + 1, 0)

Big_sub(a, b) == Big_norm(Big_subFrom(a, b, 1, 0))

\* -1, 0 or 1 as a < b, a = b or a > b
RECURSIVE Big_cmpFrom(_, _, _)
Big_cmpFrom(a, b, i) ==
    IF i = 0 THEN 0
    ELSE IF a[i] # b[i] THEN (IF a[i] < b[i] THEN 0 - 1 ELSE 1)
    ELSE Big_cmpFrom(a, b, i - 1)

Big_cmp(a, b) ==
    IF Len(a) # Len(b) THEN (IF Len(a) < Len(b) THEN 0 - 1 ELSE 1)
    ELSE Big_cmpFrom(a, b, Len(a))

\* a * k for 0 <= k <= Base
RECURSIVE Big_mulSmallFrom(_, _, _, _)
Big_mulSmallFrom(a, k, i, carry) ==
    IF i > Len(a) THEN Big_fromInt(carry)
    ELSE LET s == a[i] * k + carry
         IN  <<s % Base>> \o Big_mulSmallFrom(a, k, i + 1, s \div Base)

Big_mulSmall(a, k) == Big_norm(Big_mulSmallFrom(a, k, 1, 0))

\* a * Base^n
Big_shiftLimbs(a, n) == IF a = <<>> THEN <<>> ELSE [i \in 1..n |-> 0] \o a

RECURSIVE Big_mulFrom(_, _, _)
Big_mulFrom(a, b, i) ==
    IF i > Len(b) THEN <<>>
    ELSE Big_add(Big_shiftLimbs(Big_mulSmall(a, b[i]), i - 1), Big_mulFrom(a, b, i + 1))

Big_mul(a, b) == Big_mulFrom(a, b, 1)

\* a divided by k, 0 < k <= Base: quotient q and remainder r
RECURSIVE Big_divSmallFrom(_, _, _, _)
Big_divSmallFrom(a, k, i, rem) ==
    IF i = 0 THEN [q |-> <<>>, r |-> rem]
    ELSE LET cur  == rem * Base + a[i]
             rest == Big_divSmallFrom(a, k, i - 1, cur % k)
         IN  [q |-> rest.q \o <<cur \div k>>, r |-> rest.r]

Big_normQuotient(d) == [q |-> Big_norm(d.q), r |-> d.r]

Big_divSmall(a, k) == Big_normQuotient(Big_divSmallFrom(a, k, Len(a), 0))

RECURSIVE Int_bitLen(_)
Int_bitLen(n) == IF n = 0 THEN 0 ELSE 1 + Int_bitLen(n \div 2)

Big_bitLen(a) ==
    IF a = <<>> THEN 0 ELSE LimbBits * (Len(a) - 1) + Int_bitLen(a[Len(a)])

\* a * 2^n
Big_shl(a, n) == Big_shiftLimbs(Big_mulSmall(a, 2^(n % LimbBits)), n \div LimbBits)

\* floor(a / 2^n)
Big_shr(a, n) ==
    IF n \div LimbBits >= Len(a) THEN <<>>
    ELSE Big_divSmall(SubSeq(a, n \div LimbBits + 1, Len(a)), 2^(n % LimbBits)).q

Big_isOdd(a) == a # <<>> /\ a[1] % 2 = 1

\* A number is zero or m * 2^e with 2^52 <= m < 2^53.
F64_precision == 53

F64_zero == [m |-> <<>>, e |-> 0]

\* The double nearest to n * 2^e, or, when inexact holds, to a value strictly
\* between n * 2^e and (n + 1) * 2^e (then n has more than F64_precision + 1 bits).
F64_roundUp(q, c, inexact) == c > 0 \/ (c = 0 /\ (inexact \/ Big_isOdd(q)))

\* r * 2^e with r <= 2^F64_precision, brought back to F64_precision bits
F64_normalize(r, e) ==
    IF Big_bitLen(r) > F64_precision
    THEN [m |-> Big_shr(r, 1), e |-> e + 1]
    ELSE [m |-> r, e |-> e]

\* n has d bits too many and q is floor(n / 2^d): the remainder decides
F64_roundTo(n, q, d, e, inexact) ==
    F64_normalize(IF F64_roundUp(q, Big_cmp(Big_sub(n, Big_shl(q, d)), Big_shl(<<1>>, d - 1)),
                                 inexact)
                  THEN Big_add(q, <<1>>)
                  ELSE q,
                  e + d)

F64_roundLen(n, len, e, inexact) ==
    IF len = 0 THEN F64_zero
    ELSE IF len <= F64_precision
    THEN [m |-> Big_shl(n, F64_precision - len), e |-> e - (F64_precision - len)]
    ELSE F64_roundTo(n, Big_shr(n, len - F64_precision), len - F64_precision, e, inexact)

F64_round(n, e, inexact) == F64_roundLen(n, Big_bitLen(n), e, inexact)

F64_fromInt(n) == F64_round(Big_fromInt(n), 0, FALSE)

\* x / d for an integer 0 < d <= Base
F64_roundQuotient(qr, e) == F64_round(qr.q, e, qr.r # 0)

F64_divByInt(x, d) ==
    F64_roundQuotient(Big_divSmall(Big_shl(x.m, 5 * LimbBits), d), x.e - 5 * LimbBits)

\* n / d for integers n >= 0 and 0 < d <= Base
F64_divInt(n, d) == F64_divByInt(F64_fromInt(n), d)

Int_min(a, b) == IF a <= b THEN a ELSE b

\* The mantissa of x brought to the exponent e <= x.e
F64_at(x, e) == Big_shl(x.m, x.e - e)

F64_addAt(x, y, e) == F64_round(Big_add(F64_at(x, e), F64_at(y, e)), e, FALSE)

F64_add(x, y) ==
    IF x.m = <<>> THEN y
    ELSE IF y.m = <<>> THEN x
    ELSE F64_addAt(x, y, Int_min(x.e, y.e))

\* -1, 0 or 1 as x < y, x = y or x > y
F64_cmpAt(x, y, e) == Big_cmp(F64_at(x, e), F64_at(y, e))

F64_cmp(x, y) == F64_cmpAt(x, y, Int_min(x.e, y.e))

F64_le(x, y) == F64_cmp(x, y) <= 0

\* x - y for x >= y
F64_subAt(x, y, e) == F64_round(Big_sub(F64_at(x, e), F64_at(y, e)), e, FALSE)

F64_sub(x, y) == IF y.m = <<>> THEN x ELSE F64_subAt(x, y, Int_min(x.e, y.e))

F64_mul(x, y) ==
    IF x.m = <<>> \/ y.m = <<>> THEN F64_zero
    ELSE F64_round(Big_mul(x.m, y.m), x.e + y.e, FALSE)

\* Math.floor(x), for x below 2^31
F64_floor(x) ==
    IF x.e >= 0 THEN Big_toInt(Big_shl(x.m, x.e)) ELSE Big_toInt(Big_shr(x.m, 0 - x.e))

\* Math.ceil(x), for x below 2^31
F64_ceilFrom(x, floor) == IF F64_fromInt(floor) = x THEN floor ELSE floor + 1

F64_ceil(x) == F64_ceilFrom(x, F64_floor(x))

\* percentile(sorted, p) on doubles, p an integer.
F64_weighted(atLower, atUpper, weight) ==
    F64_add(F64_mul(atLower, F64_sub(F64_fromInt(1), weight)), F64_mul(atUpper, weight))

F64_percentileBetween(sorted, index, lower, upper) ==
    IF lower = upper THEN sorted[lower + 1]
    ELSE F64_weighted(sorted[lower + 1], sorted[upper + 1], F64_sub(index, F64_fromInt(lower)))

F64_percentileAt(sorted, index) ==
    F64_percentileBetween(sorted, index, F64_floor(index), F64_ceil(index))

F64_percentile(sorted, p) ==
    IF Len(sorted) = 0 THEN F64_zero
    ELSE IF Len(sorted) = 1 THEN sorted[1]
    ELSE F64_percentileAt(sorted, F64_mul(F64_divInt(p, 100), F64_fromInt(Len(sorted) - 1)))

RECURSIVE F64_insertSorted(_, _)
F64_insertSorted(x, s) ==
    IF s = <<>> THEN <<x>>
    ELSE IF F64_cmp(x, Head(s)) < 0 THEN <<x>> \o s
         ELSE <<Head(s)>> \o F64_insertSorted(x, Tail(s))

\* values.sort((a, b) => a - b)
RECURSIVE F64_sortAsc(_)
F64_sortAsc(s) ==
    IF s = <<>> THEN <<>> ELSE F64_insertSorted(Head(s), F64_sortAsc(Tail(s)))

\* values.reduce((acc, v) => acc + v, 0)
RECURSIVE F64_sumFrom(_, _, _)
F64_sumFrom(acc, s, i) ==
    IF i > Len(s) THEN acc ELSE F64_sumFrom(F64_add(acc, s[i]), s, i + 1)

F64_zeroPercentiles ==
    [min |-> F64_zero, max |-> F64_zero, p50 |-> F64_zero, p95 |-> F64_zero,
     p99 |-> F64_zero, mean |-> F64_zero, count |-> 0]

\* computePercentiles(entries, metric) on entries whose values are doubles.
F64_computePercentilesOf(values) ==
    IF Len(values) = 0 THEN F64_zeroPercentiles
    ELSE [min   |-> values[1],
          max   |-> values[Len(values)],
          p50   |-> F64_percentile(values, 50),
          p95   |-> F64_percentile(values, 95),
          p99   |-> F64_percentile(values, 99),
          mean  |-> F64_divByInt(F64_sumFrom(F64_zero, values, 1), Len(values)),
          count |-> Len(values)]

F64_computePercentiles(entries, metric) ==
    F64_computePercentilesOf(
        F64_sortAsc(ValuesOf(SelectSeq(entries, LAMBDA e : e.metric = metric))))

\* computeStagePercentiles(entries, metric) on entries whose values are doubles.
F64_computeStagePercentiles(entries, metric) ==
    [s \in { entries[i].stageName :
                i \in { j \in 1..Len(entries) : entries[j].metric = metric } } |->
        F64_computePercentiles(SelectSeq(entries, LAMBDA e : e.stageName = s), metric)]

\* computeStageErrors(entries) on entries whose values are doubles: the values
\* of a stage are added one by one in the order of the entries,
\* errors.set(entry.stageName, current + entry.value).
F64_computeStageErrors(entries) ==
    [s \in { entries[i].stageName :
                i \in { j \in 1..Len(entries) : entries[j].metric = "errorCount" } } |->
        F64_sumFrom(F64_zero,
                    ValuesOf(SelectSeq(entries, LAMBDA e : e.metric = "errorCount"
                                                            /\ e.stageName = s)), 1)]

----------------------------------------------------------------------------
(* strategies/RingBufferStrategy *)

\* An array slot never written.
Hole == [hole |-> TRUE]

\* The value of x % 0 in JavaScript; no index of the buffer takes it.
NaN == 0 - 1

\* a % b for a >= 0 or a = NaN, b >= 0.
JsMod(a, b) == IF b = 0 \/ a = NaN THEN NaN ELSE a % b

\* new Array(maxSize) throws a RangeError for a negative length.
Ring_constructorThrows(maxSize) == maxSize < 0

Ring_new(maxSize) ==
    [type |-> "ringBuffer",
     buffer |-> [i \in 0..(maxSize - 1) |-> Hole],
     head |-> 0, size |-> 0, maxSize |-> maxSize,
     totalPushed |-> 0, totalEvicted |-> 0]

Ring_push(s, entry) ==
    [s EXCEPT !.buffer = (s.head :> entry) @@ s.buffer,
              !.head = JsMod(IF s.head = NaN THEN NaN ELSE s.head + 1, s.maxSize),
              !.totalPushed = @ + 1,
              !.size = IF s.size < s.maxSize THEN @ + 1 ELSE @,
              !.totalEvicted = IF s.size < s.maxSize THEN @ ELSE @ + 1]

\* A bug: the entries are read from slot 0 also after the buffer has wrapped.
Ring_getEntries_noWrap(s) == [i \in 1..s.size |-> s.buffer[i - 1]]

Ring_getEntries(s) ==
    IF s.size = 0 THEN <<>>
    ELSE IF s.size < s.maxSize THEN [i \in 1..s.size |-> s.buffer[i - 1]]
    ELSE [i \in 1..s.maxSize |-> s.buffer[(s.head + (i - 1)) % s.maxSize]]

\* A bug: only the newest entry is read, a sub-window of what is held.
Ring_getPercentiles_newestOnly(s, metric) ==
    computePercentiles(
        IF s.size = 0 THEN <<>> ELSE <<Ring_getEntries(s)[s.size]>>, metric)

Ring_getPercentiles(s, metric) == computePercentiles(Ring_getEntries(s), metric)

Ring_getStagePercentiles(s, stageName, metric) ==
    computePercentiles(
        SelectSeq(Ring_getEntries(s), LAMBDA e : e.stageName = stageName), metric)

Ring_getSnapshot(s) ==
    LET entries == Ring_getEntries(s)
    IN  [entries |-> entries,
         startTime |-> IF Len(entries) > 0 THEN entries[1].timestamp ELSE 0,
         endTime |-> IF Len(entries) > 0 THEN entries[Len(entries)].timestamp ELSE 0,
         size |-> Len(entries),
         totalPushed |-> s.totalPushed,
         totalEvicted |-> s.totalEvicted]

Ring_windowInfo(s, t) ==
    LET entries == Ring_getEntries(s)
    IN  [type |-> "ringBuffer",
         startTime |-> IF Len(entries) > 0 THEN entries[1].timestamp ELSE t,
         endTime |-> IF Len(entries) > 0 THEN entries[Len(entries)].timestamp ELSE t,
         entryCount |-> Len(entries)]

\* The MetricResult every strategy builds from the entries it reads.
MetricResultOf(entries, windowInfo, t) ==
    [latencyPercentiles |-> computePercentiles(entries, "latency"),
     stagePercentiles |-> computeStagePercentiles(entries, "latency"),
     totalErrors |-> TotalErrorsOf(entries),
     stageErrors |-> computeStageErrors(entries),
     totalInvocations |-> TotalInvocationsOf(entries),
     windowInfo |-> windowInfo,
     computedAt |-> t]

Ring_getMetricResult(s, t) == MetricResultOf(Ring_getEntries(s), Ring_windowInfo(s, t), t)

Ring_clear(s) ==
    [s EXCEPT !.buffer = [i \in 0..(s.maxSize - 1) |-> Hole],
              !.head = 0, !.size = 0, !.totalPushed = 0, !.totalEvicted = 0]

Ring_getConfig(s) == [type |-> "ringBuffer", maxSize |-> s.maxSize]

----------------------------------------------------------------------------
(* strategies/TumblingWindowStrategy *)

Tumbling_new(windowMs, maxArchivedBuckets, t) ==
    [type |-> "tumbling",
     currentBucket |-> <<>>, bucketStartTime |-> t,
     windowMs |-> windowMs, maxArchivedBuckets |-> maxArchivedBuckets,
     archivedBuckets |-> <<>>,
     totalPushed |-> 0, totalEvicted |-> 0]

Tumbling_defaultWindowMs == 60000

Tumbling_defaultMaxArchivedBuckets == 10

\* new TumblingWindowStrategy(config) at instant t; config is a function on the
\* options the caller gives.
Tumbling_constructor(config, t) ==
    Tumbling_new(
        IF "windowMs" \in DOMAIN config THEN config.windowMs ELSE Tumbling_defaultWindowMs,
        IF "maxArchivedBuckets" \in DOMAIN config
            THEN config.maxArchivedBuckets ELSE Tumbling_defaultMaxArchivedBuckets,
        t)

MetricBucket(entries, startTime, endTime) ==
    [entries |-> entries, startTime |-> startTime, endTime |-> endTime,
     percentiles |-> computePercentiles(entries, "latency")]

\* A bug: the bucket before the newest is removed instead of the oldest.
RECURSIVE Tumbling_evictOld_newestFirst(_)
Tumbling_evictOld_newestFirst(s) ==
    IF Len(s.archivedBuckets) > s.maxArchivedBuckets
    THEN LET n == Len(s.archivedBuckets)
             removed == IF n >= 2 THEN n - 1 ELSE n
         IN  Tumbling_evictOld_newestFirst(
                [s EXCEPT !.archivedBuckets =
                            SubSeq(@, 1, removed - 1) \o SubSeq(@, removed + 1, n),
                          !.totalEvicted = @ + Len(s.archivedBuckets[removed].entries)])
    ELSE s

\* A bug: the entries of an evicted bucket are not counted.
RECURSIVE Tumbling_evictOld_uncounted(_)
Tumbling_evictOld_uncounted(s) ==
    IF Len(s.archivedBuckets) > s.maxArchivedBuckets
    THEN Tumbling_evictOld_uncounted([s EXCEPT !.archivedBuckets = Tail(@)])
    ELSE s

\* while (archivedBuckets.length > maxArchivedBuckets) { shift(); totalEvicted += ... }
RECURSIVE Tumbling_evictOld(_)
Tumbling_evictOld(s) ==
    IF Len(s.archivedBuckets) > s.maxArchivedBuckets
    THEN Tumbling_evictOld(
            [s EXCEPT !.archivedBuckets = Tail(@),
                      !.totalEvicted = @ + Len(Head(s.archivedBuckets).entries)])
    ELSE s

Tumbling_archiveBucket(s, entries, startTime, endTime) ==
    Tumbling_evictOld(
        [s EXCEPT !.archivedBuckets = Append(@, MetricBucket(entries, startTime, endTime))])

Tumbling_closeBucket(s, endTime) ==
    LET archived ==
            IF Len(s.currentBucket) > 0
            THEN Tumbling_archiveBucket(s, s.currentBucket, s.bucketStartTime, endTime)
            ELSE s
    IN  [archived EXCEPT !.currentBucket = <<>>]

\* A bug: the bucket boundary jumps to the bucket of the timestamp, archiving nothing.
Tumbling_skipWindows_jump(s, timestamp) ==
    IF timestamp >= s.bucketStartTime + s.windowMs
    THEN [s EXCEPT !.bucketStartTime = @ + ((timestamp - @) \div s.windowMs) * s.windowMs]
    ELSE s

\* while (entry.timestamp >= bucketStartTime + windowMs) { archiveBucket([], ...); bucketStartTime += windowMs }
RECURSIVE Tumbling_skipWindows(_, _)
Tumbling_skipWindows(s, timestamp) ==
    IF timestamp >= s.bucketStartTime + s.windowMs
    THEN Tumbling_skipWindows(
            [Tumbling_archiveBucket(s, <<>>, s.bucketStartTime, s.bucketStartTime + s.windowMs)
                EXCEPT !.bucketStartTime = @ + s.windowMs],
            timestamp)
    ELSE s

\* The loop of push never ends when windowMs <= 0 and the entry is at or past
\* the bucket's end: bucketStartTime + windowMs never passes the timestamp.
Tumbling_pushHangs(s, entry) ==
    s.windowMs <= 0 /\ entry.timestamp >= s.bucketStartTime + s.windowMs

\* A bug: the entry joins the bucket without the bucket being closed first.
Tumbling_push_noRoll(s, entry) ==
    [s EXCEPT !.totalPushed = @ + 1, !.currentBucket = Append(@, entry)]

Tumbling_push(s, entry) ==
    LET counted == [s EXCEPT !.totalPushed = @ + 1]
        bucketEndTime == s.bucketStartTime + s.windowMs
        opened ==
            IF entry.timestamp >= bucketEndTime
            THEN Tumbling_skipWindows(
                    [Tumbling_closeBucket(counted, bucketEndTime)
                        EXCEPT !.bucketStartTime = bucketEndTime],
                    entry.timestamp)
            ELSE counted
    IN  [opened EXCEPT !.currentBucket = Append(@, entry)]

Null == [null |-> TRUE]

\* A bug: the active bucket is closed only once its duration has elapsed.
Tumbling_flushCurrentBucket_whenElapsed(s, t) ==
    IF Len(s.currentBucket) = 0 \/ t < s.bucketStartTime + s.windowMs THEN s
    ELSE [Tumbling_archiveBucket(s, s.currentBucket, s.bucketStartTime, t)
            EXCEPT !.currentBucket = <<>>, !.bucketStartTime = t]

\* A bug: an empty bucket is archived as well.
Tumbling_flushCurrentBucket_always(s, t) ==
    [Tumbling_archiveBucket(s, s.currentBucket, s.bucketStartTime, t)
        EXCEPT !.currentBucket = <<>>, !.bucketStartTime = t]

\* flushCurrentBucket(): the strategy afterwards, and what it returns.
Tumbling_flushCurrentBucket(s, t) ==
    IF Len(s.currentBucket) = 0 THEN s
    ELSE [Tumbling_archiveBucket(s, s.currentBucket, s.bucketStartTime, t)
            EXCEPT !.currentBucket = <<>>, !.bucketStartTime = t]

Tumbling_flushReturns(s, t) ==
    IF Len(s.currentBucket) = 0 THEN Null
    ELSE MetricBucket(s.currentBucket, s.bucketStartTime, t)

\* The entries of a list of buckets, oldest bucket first.
RECURSIVE BucketEntries(_)
BucketEntries(buckets) ==
    IF buckets = <<>> THEN <<>> ELSE Head(buckets).entries \o BucketEntries(Tail(buckets))

\* A bug: the archived buckets are read as well.
Tumbling_getPercentiles_withArchive(s, metric) ==
    computePercentiles(BucketEntries(s.archivedBuckets) \o s.currentBucket, metric)

Tumbling_getPercentiles(s, metric) == computePercentiles(s.currentBucket, metric)

Tumbling_getStagePercentiles(s, stageName, metric) ==
    computePercentiles(
        SelectSeq(s.currentBucket, LAMBDA e : e.stageName = stageName), metric)

Tumbling_getSnapshot(s) ==
    [entries |-> s.currentBucket,
     startTime |-> s.bucketStartTime,
     endTime |-> s.bucketStartTime + s.windowMs,
     size |-> Len(s.currentBucket),
     totalPushed |-> s.totalPushed,
     totalEvicted |-> s.totalEvicted]

\* A bug: the window reported starts at the instant of the call.
Tumbling_windowInfo_fromNow(s, t) ==
    [type |-> "tumbling",
     startTime |-> t,
     endTime |-> t + s.windowMs,
     entryCount |-> Len(s.currentBucket)]

Tumbling_windowInfo(s, t) ==
    [type |-> "tumbling",
     startTime |-> s.bucketStartTime,
     endTime |-> s.bucketStartTime + s.windowMs,
     entryCount |-> Len(s.currentBucket)]

Tumbling_getMetricResult(s, t) ==
    MetricResultOf(s.currentBucket, Tumbling_windowInfo(s, t), t)

\* A bug: the active bucket keeps the boundary it had.
Tumbling_clear_keepsBoundary(s, t) ==
    [s EXCEPT !.currentBucket = <<>>, !.archivedBuckets = <<>>,
              !.totalPushed = 0, !.totalEvicted = 0]

Tumbling_clear(s, t) ==
    [s EXCEPT !.currentBucket = <<>>, !.archivedBuckets = <<>>,
              !.bucketStartTime = t, !.totalPushed = 0, !.totalEvicted = 0]

Tumbling_getConfig(s) == [type |-> "tumbling", windowMs |-> s.windowMs]

----------------------------------------------------------------------------
(* strategies/SlidingWindowStrategy *)

Sliding_new(windowMs) ==
    [type |-> "sliding", entries |-> <<>>, windowMs |-> windowMs,
     totalPushed |-> 0, totalEvicted |-> 0]

\* A bug: an entry at exactly the cutoff is evicted too.
Sliding_evictStale_strict(s, referenceTime) ==
    LET cutoff == referenceTime - s.windowMs
        kept == SelectSeq(s.entries, LAMBDA e : e.timestamp > cutoff)
    IN  [s EXCEPT !.entries = kept,
                  !.totalEvicted = @ + (Len(s.entries) - Len(kept))]

Sliding_evictStale(s, referenceTime) ==
    LET cutoff == referenceTime - s.windowMs
        kept == SelectSeq(s.entries, LAMBDA e : e.timestamp >= cutoff)
    IN  [s EXCEPT !.entries = kept,
                  !.totalEvicted = @ + (Len(s.entries) - Len(kept))]

Sliding_push(s, entry) ==
    Sliding_evictStale(
        [s EXCEPT !.totalPushed = @ + 1, !.entries = Append(@, entry)],
        entry.timestamp)

\* A bug: a query reads the entries without evicting.
Sliding_afterQuery_noEvict(s, t) == s

\* Every query first calls evictStale() with Date.now(): the strategy afterwards.
Sliding_afterQuery(s, t) == Sliding_evictStale(s, t)

Sliding_getPercentiles(s, metric, t) ==
    computePercentiles(Sliding_afterQuery(s, t).entries, metric)

Sliding_getStagePercentiles(s, stageName, metric, t) ==
    computePercentiles(
        SelectSeq(Sliding_afterQuery(s, t).entries, LAMBDA e : e.stageName = stageName),
        metric)

Sliding_getSnapshot(s, t) ==
    LET after == Sliding_afterQuery(s, t)
    IN  [entries |-> after.entries,
         startTime |-> t - s.windowMs,
         endTime |-> t,
         size |-> Len(after.entries),
         totalPushed |-> after.totalPushed,
         totalEvicted |-> after.totalEvicted]

Sliding_windowInfo(s, t) ==
    [type |-> "sliding",
     startTime |-> t - s.windowMs,
     endTime |-> t,
     entryCount |-> Len(Sliding_afterQuery(s, t).entries)]

Sliding_getMetricResult(s, t) ==
    MetricResultOf(Sliding_afterQuery(s, t).entries, Sliding_windowInfo(s, t), t)

Sliding_clear(s) ==
    [s EXCEPT !.entries = <<>>, !.totalPushed = 0, !.totalEvicted = 0]

\* A bug: getConfig() evicts like a query.
Sliding_afterGetConfig_evicts(s, t) == Sliding_evictStale(s, t)

\* getConfig() does not call evictStale().
Sliding_getConfig(s) == [type |-> "sliding", windowMs |-> s.windowMs]

Sliding_afterGetConfig(s, t) == s

----------------------------------------------------------------------------
(* core/types WindowStrategy: the interface the three classes implement *)

NoStrategy == [none |-> TRUE]

Push(s, entry) ==
    CASE s.type = "ringBuffer" -> Ring_push(s, entry)
      [] s.type = "tumbling"   -> Tumbling_push(s, entry)
      [] s.type = "sliding"    -> Sliding_push(s, entry)

PushHangs(s, entry) == s.type = "tumbling" /\ Tumbling_pushHangs(s, entry)

\* The strategy after a query made at instant t.
AfterQuery(s, t) == IF s.type = "sliding" THEN Sliding_afterQuery(s, t) ELSE s

AfterGetConfig(s, t) == IF s.type = "sliding" THEN Sliding_afterGetConfig(s, t) ELSE s

GetPercentiles(s, metric, t) ==
    CASE s.type = "ringBuffer" -> Ring_getPercentiles(s, metric)
      [] s.type = "tumbling"   -> Tumbling_getPercentiles(s, metric)
      [] s.type = "sliding"    -> Sliding_getPercentiles(s, metric, t)

GetStagePercentiles(s, stageName, metric, t) ==
    CASE s.type = "ringBuffer" -> Ring_getStagePercentiles(s, stageName, metric)
      [] s.type = "tumbling"   -> Tumbling_getStagePercentiles(s, stageName, metric)
      [] s.type = "sliding"    -> Sliding_getStagePercentiles(s, stageName, metric, t)

GetSnapshot(s, t) ==
    CASE s.type = "ringBuffer" -> Ring_getSnapshot(s)
      [] s.type = "tumbling"   -> Tumbling_getSnapshot(s)
      [] s.type = "sliding"    -> Sliding_getSnapshot(s, t)

GetMetricResult(s, t) ==
    CASE s.type = "ringBuffer" -> Ring_getMetricResult(s, t)
      [] s.type = "tumbling"   -> Tumbling_getMetricResult(s, t)
      [] s.type = "sliding"    -> Sliding_getMetricResult(s, t)

Clear(s, t) ==
    CASE s.type = "ringBuffer" -> Ring_clear(s)
      [] s.type = "tumbling"   -> Tumbling_clear(s, t)
      [] s.type = "sliding"    -> Sliding_clear(s)

GetConfig(s) ==
    CASE s.type = "ringBuffer" -> Ring_getConfig(s)
      [] s.type = "tumbling"   -> Tumbling_getConfig(s)
      [] s.type = "sliding"    -> Sliding_getConfig(s)

\* The entries a strategy holds for its queries, without evicting.
Held(s) ==
    CASE s.type = "ringBuffer" -> Ring_getEntries(s)
      [] s.type = "tumbling"   -> s.currentBucket
      [] s.type = "sliding"    -> s.entries

----------------------------------------------------------------------------
(* A caller using a strategy directly *)

\* How late an entry may be pushed: its timestamp is Date.now() - lateness.
Lateness == {0, 1}

\* The entries a caller pushes at instant t.
PushInputs(t) ==
    { MkEntry(p[1], p[2], p[3], t - d) : p \in Payloads, d \in { l \in Lateness : l <= t } }

QueryMetrics == {"latency", "errorCount"}

Direct == status = "ok" /\ collector = NoCollector

PushBudget(s) == IF s.type = "tumbling" THEN MaxTumblingPushes ELSE MaxPushes

\* Time passes; nothing is called.
Tick ==
    /\ now < (IF collector = NoCollector THEN MaxTime ELSE MaxBridgeTime)
    /\ now' = now + 1
    /\ UNCHANGED <<strategy, status, lastOp, hist, disturbed, pushes, collector, call, adapter, tree>>

StrategyPush ==
    \E entry \in PushInputs(now) :
        /\ Direct
        /\ pushes < PushBudget(strategy)
        /\ ~PushHangs(strategy, entry)
        /\ strategy' = Push(strategy, entry)
        /\ hist' = Append(hist, entry)
        /\ pushes' = pushes + 1
        /\ lastOp' = "push"
        /\ UNCHANGED <<status, now, disturbed, collector, call, adapter, tree>>

\* push() on a TumblingWindowStrategy whose loop never ends: the call does not return.
StrategyPushHangs ==
    \E entry \in PushInputs(now) :
        /\ Direct
        /\ pushes < PushBudget(strategy)
        /\ PushHangs(strategy, entry)
        /\ status' = "hung"
        /\ lastOp' = "push"
        /\ UNCHANGED <<strategy, now, hist, disturbed, pushes, collector, call, adapter, tree>>

\* A query made at Date.now(): the strategy afterwards.  What the query returns is
\* the operator of its name (GetPercentiles, ...) applied to the strategy before.
Query(name) ==
    /\ Direct
    /\ strategy' = AfterQuery(strategy, now)
    /\ lastOp' = name
    /\ UNCHANGED <<status, now, hist, disturbed, pushes, collector, call, adapter, tree>>

StrategyGetPercentiles == Query("query")

StrategyGetStagePercentiles == Query("query")

StrategyGetSnapshot == Query("query")

StrategyGetMetricResult == Query("getMetricResult")

StrategyGetConfig ==
    /\ Direct
    /\ strategy' = AfterGetConfig(strategy, now)
    /\ lastOp' = "getConfig"
    /\ UNCHANGED <<status, now, hist, disturbed, pushes, collector, call, adapter, tree>>

StrategyClear ==
    /\ Direct
    /\ strategy' = Clear(strategy, now)
    /\ hist' = <<>>
    /\ disturbed' = TRUE
    /\ lastOp' = "clear"
    /\ UNCHANGED <<status, now, pushes, collector, call, adapter, tree>>

TumblingFlush ==
    /\ Direct
    /\ strategy.type = "tumbling"
    /\ strategy' = Tumbling_flushCurrentBucket(strategy, now)
    /\ disturbed' = TRUE
    /\ lastOp' = "flushCurrentBucket"
    /\ UNCHANGED <<status, now, hist, pushes, collector, call, adapter, tree>>

----------------------------------------------------------------------------
(* Specifications *)

RingInstances == { Ring_new(m) : m \in MaxSizes }

TumblingInstances(t) ==
    { Tumbling_new(w, a, t) : w \in WindowMss, a \in MaxArchivedBucketss }

SlidingInstances == { Sliding_new(w) : w \in WindowMss }

\* new RingBufferStrategy / TumblingWindowStrategy / SlidingWindowStrategy with any
\* number a caller can pass; a constructor that throws yields no instance.
AnyInstances(t) ==
    { Ring_new(m) : m \in { x \in AnyMaxSizes : ~Ring_constructorThrows(x) } }
    \cup { Tumbling_new(w, a, t) : w \in AnyWindowMss, a \in MaxArchivedBucketss }
    \cup { Sliding_new(w) : w \in AnyWindowMss }

InitWith(instances) ==
    /\ strategy \in instances
    /\ status = "ok"
    /\ now = 0
    /\ lastOp = "constructor"
    /\ hist = <<>>
    /\ disturbed = FALSE
    /\ pushes = 0
    /\ collector = NoCollector
    /\ call = NoCall
    /\ adapter = NoAdapter
    /\ tree = NoTree

Init == InitWith(RingInstances \cup TumblingInstances(0) \cup SlidingInstances)

InitRing == InitWith(RingInstances)

InitTumbling == InitWith(TumblingInstances(0))

InitSliding == InitWith(SlidingInstances)

InitAnyConfig ==
    \/ InitWith(AnyInstances(0))
    \/ /\ \E m \in AnyMaxSizes : Ring_constructorThrows(m)
       /\ strategy = NoStrategy
       /\ status = "rejected"
       /\ now = 0
       /\ lastOp = "constructor"
       /\ hist = <<>>
       /\ disturbed = FALSE
       /\ pushes = 0
       /\ collector = NoCollector
       /\ call = NoCall
       /\ adapter = NoAdapter
       /\ tree = NoTree

NextCommon ==
    \/ Tick
    \/ StrategyPush
    \/ StrategyGetPercentiles
    \/ StrategyGetStagePercentiles
    \/ StrategyGetSnapshot
    \/ StrategyGetMetricResult
    \/ StrategyGetConfig
    \/ StrategyClear

Next == NextCommon \/ TumblingFlush

Spec == Init /\ [][Next]_vars

SpecRing == InitRing /\ [][NextCommon]_vars

SpecTumbling == InitTumbling /\ [][Next]_vars

SpecSliding == InitSliding /\ [][NextCommon]_vars

NextAnyConfig == Next \/ StrategyPushHangs

SpecAnyConfig == InitAnyConfig /\ [][NextAnyConfig]_vars

----------------------------------------------------------------------------
(* MetricCollector: the Recorder that turns lifecycle events into entries *)

\* MetricCollectorOptions: what the collector samples and whether it was given an
\* onMetricEntry callback.
MkOptions(r, w, c, cb) ==
    [trackReads |-> r, trackWrites |-> w, trackCommits |-> c, hasCallback |-> cb]

\* The options tried: everything tracked, with and without a callback, and each
\* kind of event switched off alone.
TrackingOptions ==
    { MkOptions(TRUE, TRUE, TRUE, TRUE), MkOptions(TRUE, TRUE, TRUE, FALSE),
      MkOptions(FALSE, TRUE, TRUE, TRUE), MkOptions(TRUE, FALSE, TRUE, TRUE),
      MkOptions(TRUE, TRUE, FALSE, TRUE) }

\* The duration an onStageEnd event may carry.
Durations == {7}

\* A map with one key less (Map.delete).
MapDelete(m, k) == [x \in (DOMAIN m) \ {k} |-> m[x]]

\* A lifecycle event received at instant t.
MkEvent(stageName, t, hasDuration, duration) ==
    [stageName |-> stageName, timestamp |-> t,
     hasDuration |-> hasDuration, duration |-> duration]

PlainEvents(t) == { MkEvent(n, t, FALSE, 0) : n \in StageNames }

\* The error, read, write and commit events received at instant t.
ScopeEvents(t) == { MkEvent(n, t, FALSE, 0) : n \in ScopeStageNames }

StageEndEvents(t) ==
    PlainEvents(t) \cup { MkEvent(n, t, TRUE, d) : n \in StageNames, d \in Durations }

Collector_new(options) ==
    [trackReads |-> options.trackReads,
     trackWrites |-> options.trackWrites,
     trackCommits |-> options.trackCommits,
     hasCallback |-> options.hasCallback,
     stageStartTimes |-> << >>,
     observedStages |-> {},
     totalErrors |-> 0,
     totalInvocations |-> 0,
     totalEntries |-> 0]

\* What a call on the collector leaves: the collector c and its strategy s
\* afterwards, the entries it emitted, whether the callback threw, and whether the
\* call raised to its caller.
CallResult(c, s, emitted, callbackThrew, raised) ==
    [c |-> c, s |-> s, emitted |-> emitted,
     callbackThrew |-> callbackThrew, raised |-> raised]

\* A bug: emit() without the try/catch, the callback's exception reaches the hook.
Collector_emit_noCatch(c, s, entry, throws) ==
    CallResult([c EXCEPT !.totalEntries = @ + 1], Push(s, entry), <<entry>>,
               c.hasCallback /\ throws, c.hasCallback /\ throws)

\* emit(entry); throws tells whether the callback, if there is one, throws this time.
Collector_emit(c, s, entry, throws) ==
    CallResult([c EXCEPT !.totalEntries = @ + 1], Push(s, entry), <<entry>>,
               c.hasCallback /\ throws, FALSE)

\* A bug: a pending start is kept when the stage starts again.
Collector_onStageStart_keepsFirst(c, s, event, throws) ==
    Collector_emit(
        [c EXCEPT !.stageStartTimes = @ @@ (event.stageName :> event.timestamp),
                  !.observedStages = @ \cup {event.stageName},
                  !.totalInvocations = @ + 1],
        s, MkEntry(event.stageName, "stageInvocation", 1, event.timestamp), throws)

\* A bug: one pending start for all the stages.
Collector_onStageStart_single(c, s, event, throws) ==
    Collector_emit(
        [c EXCEPT !.stageStartTimes = (event.stageName :> event.timestamp),
                  !.observedStages = @ \cup {event.stageName},
                  !.totalInvocations = @ + 1],
        s, MkEntry(event.stageName, "stageInvocation", 1, event.timestamp), throws)

Collector_onStageStart(c, s, event, throws) ==
    Collector_emit(
        [c EXCEPT !.stageStartTimes = (event.stageName :> event.timestamp) @@ @,
                  !.observedStages = @ \cup {event.stageName},
                  !.totalInvocations = @ + 1],
        s, MkEntry(event.stageName, "stageInvocation", 1, event.timestamp), throws)

\* A bug: an end without a pending start is measured from instant 0.
Collector_onStageEnd_fromZero(c, s, event, throws) ==
    LET r == IF event.hasDuration
             THEN Collector_emit(c, s,
                    MkEntry(event.stageName, "latency", event.duration, event.timestamp),
                    throws)
             ELSE Collector_emit(c, s,
                    MkEntry(event.stageName, "latency",
                            event.timestamp
                                - (IF event.stageName \in DOMAIN c.stageStartTimes
                                   THEN c.stageStartTimes[event.stageName] ELSE 0),
                            event.timestamp), throws)
    IN  IF r.raised
        THEN r
        ELSE [r EXCEPT !.c.stageStartTimes = MapDelete(@, event.stageName)]

\* A bug: the pending start is preferred to the duration of the event.
Collector_onStageEnd_fromStart(c, s, event, throws) ==
    LET r == IF event.stageName \in DOMAIN c.stageStartTimes
             THEN Collector_emit(c, s,
                    MkEntry(event.stageName, "latency",
                            event.timestamp - c.stageStartTimes[event.stageName],
                            event.timestamp), throws)
             ELSE IF event.hasDuration
                  THEN Collector_emit(c, s,
                         MkEntry(event.stageName, "latency", event.duration,
                                 event.timestamp), throws)
                  ELSE CallResult(c, s, <<>>, FALSE, FALSE)
    IN  IF r.raised
        THEN r
        ELSE [r EXCEPT !.c.stageStartTimes = MapDelete(@, event.stageName)]

\* A bug: the duration is measured from the end back to the start.
Collector_onStageEnd_reversed(c, s, event, throws) ==
    LET r == IF event.hasDuration
             THEN Collector_emit(c, s,
                    MkEntry(event.stageName, "latency", event.duration, event.timestamp),
                    throws)
             ELSE IF event.stageName \in DOMAIN c.stageStartTimes
                  THEN Collector_emit(c, s,
                         MkEntry(event.stageName, "latency",
                                 c.stageStartTimes[event.stageName] - event.timestamp,
                                 event.timestamp), throws)
                  ELSE CallResult(c, s, <<>>, FALSE, FALSE)
    IN  IF r.raised
        THEN r
        ELSE [r EXCEPT !.c.stageStartTimes = MapDelete(@, event.stageName)]

Collector_onStageEnd(c, s, event, throws) ==
    LET r == IF event.hasDuration
             THEN Collector_emit(c, s,
                    MkEntry(event.stageName, "latency", event.duration, event.timestamp),
                    throws)
             ELSE IF event.stageName \in DOMAIN c.stageStartTimes
                  THEN Collector_emit(c, s,
                         MkEntry(event.stageName, "latency",
                                 event.timestamp - c.stageStartTimes[event.stageName],
                                 event.timestamp), throws)
                  ELSE CallResult(c, s, <<>>, FALSE, FALSE)
    IN  IF r.raised
        THEN r
        ELSE [r EXCEPT !.c.stageStartTimes = MapDelete(@, event.stageName)]

\* A bug: the error is emitted but not counted.
Collector_onError_uncounted(c, s, event, throws) ==
    Collector_emit(
        [c EXCEPT !.observedStages = @ \cup {event.stageName}],
        s, MkEntry(event.stageName, "errorCount", 1, event.timestamp), throws)

\* The entry's metadata (error message, operation, path, key) is left out.
Collector_onError(c, s, event, throws) ==
    Collector_emit(
        [c EXCEPT !.totalErrors = @ + 1,
                  !.observedStages = @ \cup {event.stageName}],
        s, MkEntry(event.stageName, "errorCount", 1, event.timestamp), throws)

\* A bug: reads are sampled whatever trackReads says.
Collector_onRead_always(c, s, event, throws) ==
    Collector_emit(c, s, MkEntry(event.stageName, "readCount", 1, event.timestamp), throws)

Collector_onRead(c, s, event, throws) ==
    IF ~c.trackReads
    THEN CallResult(c, s, <<>>, FALSE, FALSE)
    ELSE Collector_emit(c, s, MkEntry(event.stageName, "readCount", 1, event.timestamp), throws)

Collector_onWrite(c, s, event, throws) ==
    IF ~c.trackWrites
    THEN CallResult(c, s, <<>>, FALSE, FALSE)
    ELSE Collector_emit(c, s, MkEntry(event.stageName, "writeCount", 1, event.timestamp), throws)

Collector_onCommit(c, s, event, throws) ==
    IF ~c.trackCommits
    THEN CallResult(c, s, <<>>, FALSE, FALSE)
    ELSE Collector_emit(c, s, MkEntry(event.stageName, "commitCount", 1, event.timestamp), throws)

Collector_getSummary(c, s, t) ==
    [totalEntries |-> c.totalEntries,
     totalErrors |-> c.totalErrors,
     totalInvocations |-> c.totalInvocations,
     stageNames |-> c.observedStages,
     strategyType |-> s.type,
     windowSize |-> GetSnapshot(s, t).size]

\* A bug: the pending stage starts survive the reset.
Collector_reset_keepsStarts(c) ==
    [c EXCEPT !.observedStages = {},
              !.totalErrors = 0,
              !.totalInvocations = 0,
              !.totalEntries = 0]

\* reset(): the collector afterwards; its strategy afterwards is Clear(s, t).
Collector_reset(c) ==
    [c EXCEPT !.stageStartTimes = << >>,
              !.observedStages = {},
              !.totalErrors = 0,
              !.totalInvocations = 0,
              !.totalEntries = 0]

\* The hook of a name.
Hook(name, c, s, event, throws) ==
    CASE name = "onStageStart" -> Collector_onStageStart(c, s, event, throws)
      [] name = "onStageEnd"   -> Collector_onStageEnd(c, s, event, throws)
      [] name = "onError"      -> Collector_onError(c, s, event, throws)
      [] name = "onRead"       -> Collector_onRead(c, s, event, throws)
      [] name = "onWrite"      -> Collector_onWrite(c, s, event, throws)
      [] name = "onCommit"     -> Collector_onCommit(c, s, event, throws)

Bridged == status = "ok" /\ collector # NoCollector

\* The executor calls a hook with an event stamped Date.now().
CallHook(name, events) ==
    \E event \in events, throws \in BOOLEAN :
        /\ Bridged
        /\ throws => collector.hasCallback
        /\ \E r \in {Hook(name, collector, strategy, event, throws)} :
            /\ Len(r.emitted) > 0 => collector.totalEntries < MaxEmits
            /\ collector' = r.c
            /\ strategy' = r.s
            /\ lastOp' = name
            /\ call' = [event |-> event,
                        emitted |-> r.emitted,
                        callbackThrew |-> r.callbackThrew,
                        outcome |-> IF r.raised THEN "threw" ELSE "returned"]
            /\ UNCHANGED <<status, now, hist, disturbed, pushes, adapter, tree>>

CollectorOnStageStart == CallHook("onStageStart", PlainEvents(now))

CollectorOnStageEnd == CallHook("onStageEnd", StageEndEvents(now))

CollectorOnError == CallHook("onError", ScopeEvents(now))

CollectorOnRead == CallHook("onRead", ScopeEvents(now))

CollectorOnWrite == CallHook("onWrite", ScopeEvents(now))

CollectorOnCommit == CallHook("onCommit", ScopeEvents(now))

\* getPercentiles(), getStagePercentiles(), getMetricResult(), getSnapshot() and
\* getSummary() read the strategy at Date.now().
CollectorQuery ==
    /\ Bridged
    /\ strategy' = AfterQuery(strategy, now)
    /\ lastOp' = "query"
    /\ UNCHANGED <<status, now, hist, disturbed, pushes, collector, call, adapter, tree>>

CollectorGetPercentiles == CollectorQuery

CollectorGetStagePercentiles == CollectorQuery

CollectorGetMetricResult == CollectorQuery

CollectorGetSnapshot == CollectorQuery

CollectorGetSummary == CollectorQuery

CollectorReset ==
    /\ Bridged
    /\ strategy' = Clear(strategy, now)
    /\ collector' = Collector_reset(collector)
    /\ lastOp' = "reset"
    /\ UNCHANGED <<status, now, hist, disturbed, pushes, call, adapter, tree>>

\* The collectors built: a strategy and the options it is handed over with.
BridgeSetups(t) ==
    ({Ring_new(1)} \X TrackingOptions)
    \cup { <<Sliding_new(1), MkOptions(TRUE, TRUE, TRUE, TRUE)>>,
           <<Tumbling_new(1, 1, t), MkOptions(TRUE, TRUE, TRUE, FALSE)>> }

InitBridge ==
    /\ \E setup \in BridgeSetups(0) :
            /\ strategy = setup[1]
            /\ collector = Collector_new(setup[2])
    /\ status = "ok"
    /\ now = 0
    /\ lastOp = "constructor"
    /\ hist = <<>>
    /\ disturbed = FALSE
    /\ pushes = 0
    /\ call = NoCall
    /\ adapter = NoAdapter
    /\ tree = NoTree

NextBridge ==
    \/ Tick
    \/ CollectorOnStageStart
    \/ CollectorOnStageEnd
    \/ CollectorOnError
    \/ CollectorOnRead
    \/ CollectorOnWrite
    \/ CollectorOnCommit
    \/ CollectorGetPercentiles
    \/ CollectorGetStagePercentiles
    \/ CollectorGetMetricResult
    \/ CollectorGetSnapshot
    \/ CollectorGetSummary
    \/ CollectorReset

SpecBridge == InitBridge /\ [][NextBridge]_vars

----------------------------------------------------------------------------
(* A caller of strategies/percentile with entries whose values are doubles *)

\* The values of the entries handed over, in tenths: 1.3, 3, 4.7.
SampleTenths == {13, 30, 47}

\* The error counts of the entries handed over, in tenths: 0.1, 0.2, 0.3.
ErrorTenths == {1, 2, 3}

\* The percentiles asked for.
Ps == {0, 1, 25, 50, 95, 99, 100}

\* Two latencies next to each other among the doubles: 0.3 and 0.1 + 0.2.
NeighbourLatencies ==
    { F64_divInt(3, 10), F64_add(F64_divInt(1, 10), F64_divInt(2, 10)) }

PercentileEntries ==
    { MkEntry("A", "latency", F64_divInt(k, 10), 0) : k \in SampleTenths }
    \cup { MkEntry("A", "latency", v, 0) : v \in NeighbourLatencies }
    \cup { MkEntry("A", "errorCount", F64_divInt(k, 10), 0) : k \in ErrorTenths }

OnPercentiles == status = "ok" /\ strategy = NoStrategy

\* The caller collects one more entry.
PercentileAddEntry ==
    \E entry \in PercentileEntries :
        /\ OnPercentiles
        /\ Len(hist) < MaxSamples
        /\ hist' = Append(hist, entry)
        /\ lastOp' = "input"
        /\ call' = NoCall
        /\ UNCHANGED <<strategy, status, now, disturbed, pushes, collector, adapter, tree>>

\* percentile(sorted, p) on the sorted latency values of the entries.
CallPercentile ==
    \E p \in Ps :
        \E sorted \in {F64_sortAsc(ValuesOf(SelectSeq(hist, LAMBDA e : e.metric = "latency")))} :
            /\ OnPercentiles
            /\ lastOp' = "percentile"
            /\ call' = [sorted |-> sorted, p |-> p, result |-> F64_percentile(sorted, p)]
            /\ UNCHANGED <<strategy, status, now, hist, disturbed, pushes, collector, adapter, tree>>

\* computePercentiles(entries, 'latency')
CallComputePercentiles ==
    /\ OnPercentiles
    /\ lastOp' = "computePercentiles"
    /\ call' = [entries |-> hist, result |-> F64_computePercentiles(hist, "latency")]
    /\ UNCHANGED <<strategy, status, now, hist, disturbed, pushes, collector, adapter, tree>>

InitPercentile ==
    /\ strategy = NoStrategy
    /\ status = "ok"
    /\ now = 0
    /\ lastOp = "input"
    /\ hist = <<>>
    /\ disturbed = FALSE
    /\ pushes = 0
    /\ collector = NoCollector
    /\ call = NoCall
    /\ adapter = NoAdapter
    /\ tree = NoTree

\* computeStagePercentiles(entries, 'latency')
CallComputeStagePercentiles ==
    /\ OnPercentiles
    /\ lastOp' = "computeStagePercentiles"
    /\ call' = [entries |-> hist, result |-> F64_computeStagePercentiles(hist, "latency")]
    /\ UNCHANGED <<strategy, status, now, hist, disturbed, pushes, collector, adapter, tree>>

\* computeStageErrors(entries)
CallComputeStageErrors ==
    /\ OnPercentiles
    /\ lastOp' = "computeStageErrors"
    /\ call' = [entries |-> hist, result |-> F64_computeStageErrors(hist)]
    /\ UNCHANGED <<strategy, status, now, hist, disturbed, pushes, collector, adapter, tree>>

NextPercentile ==
    \/ PercentileAddEntry
    \/ CallPercentile
    \/ CallComputePercentiles
    \/ CallComputeStagePercentiles
    \/ CallComputeStageErrors

SpecPercentile == InitPercentile /\ [][NextPercentile]_vars

----------------------------------------------------------------------------
(* Helpers of the properties *)

Min(a, b) == IF a <= b THEN a ELSE b

\* The last n elements of a sequence (all of it when it is shorter).
LastN(seq, n) == SubSeq(seq, Len(seq) - Min(n, Len(seq)) + 1, Len(seq))

\* The step is a push() that returned: it pushed the last entry of hist'.
IsPushStep == pushes' = pushes + 1

Pushed == hist'[Len(hist')]

EmptyBuckets(archived) == { i \in 1..Len(archived) : archived[i].entries = <<>> }

----------------------------------------------------------------------------
(* Ring Buffer properties *)

\* C1: on a RingBufferStrategy of capacity c >= 1, fresh or just cleared, after
\* c + k pushes (k >= 1) getSnapshot().entries is exactly the last c pushed
\* entries in the order pushed, totalPushed is c + k and totalEvicted is k.
C1_RingKeepsLastCapacity ==
    (strategy.type = "ringBuffer" /\ strategy.maxSize >= 1 /\ Len(hist) > strategy.maxSize)
        => /\ Ring_getSnapshot(strategy).entries = LastN(hist, strategy.maxSize)
           /\ Ring_getSnapshot(strategy).totalPushed = Len(hist)
           /\ Ring_getSnapshot(strategy).totalEvicted = Len(hist) - strategy.maxSize

\* A buffer of capacity 2 that has wrapped, holding two different entries.
C1_Witness ==
    /\ strategy.type = "ringBuffer"
    /\ strategy.maxSize = 2
    /\ Len(hist) = 3
    /\ hist[2] # hist[3]
    /\ lastOp = "push"

----------------------------------------------------------------------------
(* Tumbling Window properties *)

\* The whole bucket durations a push of timestamp ts skips: those after the active
\* bucket [start, start + w) and before the bucket that contains ts.
Skipped(start, w, ts) == ((ts - start) \div w) - 1

ZeroBucket(startTime, w) ==
    [entries |-> <<>>, startTime |-> startTime, endTime |-> startTime + w,
     percentiles |-> [min |-> 0, max |-> 0, p50 |-> 0, p95 |-> 0, p99 |-> 0,
                      mean |-> <<0, 1>>, count |-> 0]]

\* C2: a push whose timestamp is two or more bucket durations past the active
\* bucket's start archives every skipped duration, in time order, as a bucket
\* with no entries and all-zero percentiles (as many of them as the archive's
\* maximum lets it keep, all of them when the archive has room: then the push
\* adds exactly one empty bucket per skipped duration), and afterwards the active
\* bucket is the one containing the timestamp and holds only the pushed entry.
C2_SkippedWindowsArchived ==
    [][ (IsPushStep /\ strategy.type = "tumbling"
            /\ Pushed.timestamp >= strategy.bucketStartTime + 2 * strategy.windowMs)
        => LET start == strategy.bucketStartTime
               w == strategy.windowMs
               n == Skipped(start, w, Pushed.timestamp)
               expected == [i \in 1..n |-> ZeroBucket(start + i * w, w)]
               kept == Min(n, strategy.maxArchivedBuckets)
               closed == IF Len(strategy.currentBucket) > 0 THEN 1 ELSE 0
               after == strategy'.archivedBuckets
           IN  /\ Len(after) >= kept
               /\ LastN(after, kept) = LastN(expected, kept)
               /\ (Len(strategy.archivedBuckets) + closed + n <= strategy.maxArchivedBuckets)
                    => /\ LastN(after, n) = expected
                       /\ Cardinality(EmptyBuckets(after))
                            = Cardinality(EmptyBuckets(strategy.archivedBuckets)) + n
               /\ strategy'.currentBucket = <<Pushed>>
               /\ strategy'.bucketStartTime = start + (n + 1) * w
               /\ strategy'.bucketStartTime <= Pushed.timestamp
               /\ Pushed.timestamp < strategy'.bucketStartTime + w
      ]_vars

\* Entries in the first and the third duration, none in the second: the archive
\* holds the first bucket and one empty bucket, the active bucket the new entry.
C2_Witness ==
    /\ strategy.type = "tumbling"
    /\ lastOp = "push"
    /\ Len(strategy.archivedBuckets) = 2
    /\ strategy.archivedBuckets[1].entries # <<>>
    /\ strategy.archivedBuckets[2].entries = <<>>
    /\ strategy.archivedBuckets[2].percentiles.count = 0
    /\ Len(strategy.currentBucket) = 1
    /\ strategy.bucketStartTime = strategy.archivedBuckets[2].endTime

\* The archived buckets tile time: each spans windowMs, each ends where the next
\* starts, the last ends where the active bucket starts.
ArchiveContiguous(s) ==
    LET a == s.archivedBuckets
    IN  /\ \A i \in 1..Len(a) : a[i].endTime = a[i].startTime + s.windowMs
        /\ \A i \in 1..(Len(a) - 1) : a[i].endTime = a[i + 1].startTime
        /\ Len(a) > 0 => a[Len(a)].endTime = s.bucketStartTime

\* C3 (part): with no flush and no clear, and the archive below its maximum, the
\* archived buckets and the active bucket tile time.
C3_ArchiveTiles ==
    (strategy.type = "tumbling" /\ ~disturbed
        /\ Len(strategy.archivedBuckets) < strategy.maxArchivedBuckets)
        => ArchiveContiguous(strategy)

\* C3: after any pushes (no flush, no clear, the archive below its maximum) the
\* archived buckets cover time contiguously (each spans windowMs, each ends where
\* the next starts, the last ends where the active bucket starts), and the bucket
\* boundary never jumps over a duration that is not archived: a push moves the
\* boundary by exactly one windowMs per bucket it archives.
C3_ContiguousCoverage ==
    [][ (IsPushStep /\ strategy.type = "tumbling" /\ ~disturbed
            /\ Len(strategy'.archivedBuckets) < strategy.maxArchivedBuckets)
        => /\ ArchiveContiguous(strategy')
           /\ strategy'.bucketStartTime - strategy.bucketStartTime
                = strategy.windowMs
                    * (Len(strategy'.archivedBuckets) - Len(strategy.archivedBuckets))
      ]_vars

\* C4: a push whose timestamp is at or after bucketStartTime + windowMs appends
\* the active bucket to the archive, also when it holds no entries (then with
\* count 0 and all-zero percentiles), and the next bucket starts at
\* bucketStartTime + windowMs.  (Stated where the archive has room.)
C4_ActiveBucketArchived ==
    [][ (IsPushStep /\ strategy.type = "tumbling"
            /\ Pushed.timestamp >= strategy.bucketStartTime + strategy.windowMs
            /\ Len(strategy.archivedBuckets)
                + (Pushed.timestamp - strategy.bucketStartTime) \div strategy.windowMs
                    <= strategy.maxArchivedBuckets)
        => LET before == Len(strategy.archivedBuckets)
               after == strategy'.archivedBuckets
               boundary == strategy.bucketStartTime + strategy.windowMs
           IN  /\ Len(after) > before
               /\ after[before + 1].entries = strategy.currentBucket
               /\ after[before + 1].startTime = strategy.bucketStartTime
               /\ after[before + 1].endTime = boundary
               /\ after[before + 1].percentiles.count
                    = Len(SelectSeq(strategy.currentBucket, LAMBDA e : e.metric = "latency"))
               /\ (strategy.currentBucket = <<>>
                    => after[before + 1] = ZeroBucket(strategy.bucketStartTime, strategy.windowMs))
               /\ IF Len(after) > before + 1
                  THEN after[before + 2].startTime = boundary
                  ELSE strategy'.bucketStartTime = boundary
      ]_vars

----------------------------------------------------------------------------
(* Sliding Window properties *)

\* C5: push of an entry with timestamp T leaves exactly the entries held before
\* with timestamp >= T - windowMs, in their order, followed by the new entry, and
\* adds the number removed to totalEvicted; an entry at exactly T - windowMs stays.
C5_SlidingPushEvicts ==
    [][ (IsPushStep /\ strategy.type = "sliding")
        => LET cutoff == Pushed.timestamp - strategy.windowMs
               kept == SelectSeq(strategy.entries, LAMBDA e : ~(e.timestamp < cutoff))
           IN  /\ strategy'.entries = Append(kept, Pushed)
               /\ strategy'.totalEvicted
                    = strategy.totalEvicted + (Len(strategy.entries) - Len(kept))
               /\ \A i \in 1..Len(strategy.entries) :
                    strategy.entries[i].timestamp = cutoff
                        => \E j \in 1..Len(strategy'.entries) :
                                strategy'.entries[j] = strategy.entries[i]
      ]_vars

\* A push has evicted an older entry and kept one at exactly T - windowMs.
C5_Witness ==
    /\ strategy.type = "sliding"
    /\ lastOp = "push"
    /\ strategy.totalEvicted >= 1
    /\ Len(strategy.entries) >= 2
    /\ strategy.entries[1].timestamp
        = strategy.entries[Len(strategy.entries)].timestamp - strategy.windowMs

\* C6: eviction is lazy.  While the clock advances and nothing is called the held
\* entries and totalEvicted stay as they are, however stale the entries; entries
\* leave the window (other than by clear()) only inside push() and the queries
\* getPercentiles, getStagePercentiles, getSnapshot and getMetricResult.
C6_LazyEviction ==
    [][ strategy.type = "sliding"
        => /\ now' # now => strategy' = strategy
           /\ (strategy'.entries # strategy.entries
                    \/ strategy'.totalEvicted # strategy.totalEvicted)
                => \/ lastOp' \in {"push", "query", "getMetricResult"} /\ now' = now
                   \/ lastOp' = "clear" /\ strategy' = Sliding_clear(strategy)
      ]_vars

\* The clock has run on and the window still holds an entry older than windowMs.
C6_Witness ==
    /\ strategy.type = "sliding"
    /\ \E i \in 1..Len(strategy.entries) :
            strategy.entries[i].timestamp < now - strategy.windowMs
    /\ strategy.totalEvicted = 0
    /\ lastOp = "push"

----------------------------------------------------------------------------
(* Properties of all strategies *)

SameExceptComputedAt(a, b) == [a EXCEPT !.computedAt = 0] = [b EXCEPT !.computedAt = 0]

\* The step is a getMetricResult() call made at instant now.
IsGetMetricResultStep ==
    /\ lastOp' = "getMetricResult"
    /\ now' = now
    /\ strategy' = AfterQuery(strategy, now)
    /\ hist' = hist

\* C7: for each strategy, a getMetricResult() call and the next one, with no
\* push between them and made at any later instant, return results equal in
\* every field except computedAt.
C7_AggregateIdempotent ==
    [][ IsGetMetricResultStep
        => \A t2 \in now..MaxTime :
                SameExceptComputedAt(GetMetricResult(strategy, now),
                                     GetMetricResult(strategy', t2))
      ]_vars

\* C7, amended: the two results are equal except for computedAt when both calls
\* are made at the same instant; made at different instants they are equal for a
\* Tumbling Window, and for a Ring Buffer that holds at least one entry.
C7_AggregateIdempotentSameInstant ==
    [][ IsGetMetricResultStep
        => \A t2 \in now..MaxTime :
                (\/ t2 = now
                 \/ strategy.type = "tumbling"
                 \/ strategy.type = "ringBuffer" /\ Len(Held(strategy)) > 0)
                => SameExceptComputedAt(GetMetricResult(strategy, now),
                                        GetMetricResult(strategy', t2))
      ]_vars

\* getMetricResult() was called on a Tumbling Window holding entries, and the
\* clock has moved since.
C7_Witness ==
    /\ strategy.type = "tumbling"
    /\ lastOp = "getMetricResult"
    /\ Len(strategy.currentBucket) >= 1
    /\ now > strategy.bucketStartTime + strategy.windowMs

\* C9: no instance configured with a capacity <= 0 (Ring Buffer) or a duration
\* <= 0 (Tumbling, Sliding Window) exists to accept a push: construction fails.
C9_InvalidConfigRejected ==
    (status = "ok" /\ lastOp = "push")
        => /\ strategy.type = "ringBuffer" => strategy.maxSize >= 1
           /\ strategy.type \in {"tumbling", "sliding"} => strategy.windowMs >= 1

----------------------------------------------------------------------------
(* MetricCollector properties *)

HookNames == {"onStageStart", "onStageEnd", "onError", "onRead", "onWrite", "onCommit"}

\* The step is a call of the hook of that name, made at instant now.
IsHookStep(name) ==
    /\ Bridged
    /\ lastOp' = name
    /\ now' = now
    /\ call' # NoCall
    /\ call'.event.timestamp = now

\* C8: onStageStart at time s makes s the pending start of its stage, and it stays
\* so until the stage's onStageEnd or a reset; onStageEnd at time e without a
\* duration, for a stage whose pending start is s, emits exactly one entry, the
\* stage's latency of value e - s at timestamp e, and leaves the stage out of
\* stageStartTimes.
C8_StartEndEmitsLatency ==
    [][ Bridged =>
        /\ \A n \in StageNames :
            LET pending(c) == IF n \in DOMAIN c.stageStartTimes
                              THEN <<c.stageStartTimes[n]>> ELSE <<>>
            IN  /\ (IsHookStep("onStageStart") /\ call'.event.stageName = n)
                    => pending(collector') = <<call'.event.timestamp>>
                /\ pending(collector') # pending(collector)
                    => \/ lastOp' \in {"onStageStart", "onStageEnd"}
                            /\ call'.event.stageName = n
                       \/ lastOp' = "reset"
        /\ (IsHookStep("onStageEnd") /\ ~call'.event.hasDuration
                /\ call'.event.stageName \in DOMAIN collector.stageStartTimes)
            => LET n == call'.event.stageName
                   s == collector.stageStartTimes[n]
                   e == call'.event.timestamp
                   sample == MkEntry(n, "latency", e - s, e)
               IN  /\ call'.emitted = <<sample>>
                   /\ strategy' = Push(strategy, sample)
                   /\ collector'.totalEntries = collector.totalEntries + 1
                   /\ n \notin DOMAIN collector'.stageStartTimes
      ]_vars

\* onStageEnd without a duration has emitted the latency of a stage started earlier.
C8_Witness ==
    /\ Bridged
    /\ lastOp = "onStageEnd"
    /\ ~call.event.hasDuration
    /\ Len(call.emitted) = 1
    /\ call.emitted[1].metric = "latency"
    /\ call.emitted[1].value >= 1
    /\ call.emitted[1].timestamp = call.event.timestamp
    /\ call.event.stageName \notin DOMAIN collector.stageStartTimes

\* C10: when the onMetricEntry callback throws on an emitted entry, the hook that
\* emitted it returns normally, the entry has been pushed to the strategy, the
\* collector's counters have been updated, and the collector and its strategy are
\* left exactly as by a callback that returns, so that every later event is
\* processed the same.
C10_CallbackErrorSwallowed ==
    [][ (\E name \in HookNames : IsHookStep(name) /\ call'.callbackThrew)
        => LET quiet == Hook(lastOp', collector, strategy, call'.event, FALSE)
           IN  /\ call'.outcome = "returned"
               /\ Len(call'.emitted) = 1
               /\ strategy' = Push(strategy, call'.emitted[1])
               /\ collector'.totalEntries = collector.totalEntries + 1
               /\ lastOp' = "onStageStart"
                    => collector'.totalInvocations = collector.totalInvocations + 1
               /\ lastOp' = "onError"
                    => collector'.totalErrors = collector.totalErrors + 1
               /\ lastOp' = "onStageEnd"
                    => call'.event.stageName \notin DOMAIN collector'.stageStartTimes
               /\ collector' = quiet.c
               /\ strategy' = quiet.s
      ]_vars

\* The callback threw on the latency entry of an onStageEnd, after earlier entries.
C10_Witness ==
    /\ Bridged
    /\ lastOp = "onStageEnd"
    /\ call.callbackThrew
    /\ call.outcome = "returned"
    /\ Len(call.emitted) = 1
    /\ collector.totalEntries >= 2

\* C11: totalErrors and totalInvocations count the onError and onStageStart
\* events received since the last reset(): each such event adds one, nothing
\* else changes them but reset(), which zeroes them, so they never decrease
\* between resets whatever the strategy evicts; and they are never below the
\* totalErrors and totalInvocations of the strategy's getMetricResult().
C11_CumulativeCounters ==
    [][ Bridged =>
        /\ IsHookStep("onError")
            => collector'.totalErrors = collector.totalErrors + 1
        /\ IsHookStep("onStageStart")
            => collector'.totalInvocations = collector.totalInvocations + 1
        /\ collector'.totalErrors # collector.totalErrors
            => \/ IsHookStep("onError")
               \/ lastOp' = "reset" /\ collector'.totalErrors = 0
        /\ collector'.totalInvocations # collector.totalInvocations
            => \/ IsHookStep("onStageStart")
               \/ lastOp' = "reset" /\ collector'.totalInvocations = 0
        /\ collector.totalErrors >= GetMetricResult(strategy, now).totalErrors
        /\ collector.totalInvocations >= GetMetricResult(strategy, now).totalInvocations
        /\ collector'.totalErrors >= GetMetricResult(strategy', now').totalErrors
        /\ collector'.totalInvocations
                >= GetMetricResult(strategy', now').totalInvocations
      ]_vars

\* Two errors were received and the strategy has evicted one of their entries.
C11_Witness ==
    /\ Bridged
    /\ lastOp = "onError"
    /\ collector.totalErrors = 2
    /\ strategy.totalEvicted >= 1
    /\ GetMetricResult(strategy, now).totalErrors = 1

\* Whether the collector samples the events of a hook.
Tracks(c, name) ==
    CASE name = "onRead"   -> c.trackReads
      [] name = "onWrite"  -> c.trackWrites
      [] name = "onCommit" -> c.trackCommits

MetricOfHook(name) ==
    CASE name = "onRead"   -> "readCount"
      [] name = "onWrite"  -> "writeCount"
      [] name = "onCommit" -> "commitCount"

\* C12: with trackReads (trackWrites, trackCommits) off, onRead (onWrite,
\* onCommit) returns normally and changes nothing: no entry is emitted, the
\* callback does not run, the strategy and the collector are as before.  Each
\* option governs its own hook only: a hook whose option is on emits its entry
\* whatever the other two options are.
C12_DisabledTrackingNoEffect ==
    [][ \A name \in {"onRead", "onWrite", "onCommit"} :
            IsHookStep(name)
            => IF Tracks(collector, name)
               THEN LET sample == MkEntry(call'.event.stageName, MetricOfHook(name), 1,
                                          call'.event.timestamp)
                    IN  /\ call'.emitted = <<sample>>
                        /\ strategy' = Push(strategy, sample)
                        /\ collector' = [collector EXCEPT !.totalEntries = @ + 1]
               ELSE /\ call'.emitted = <<>>
                    /\ ~call'.callbackThrew
                    /\ call'.outcome = "returned"
                    /\ strategy' = strategy
                    /\ collector' = collector
      ]_vars

\* onRead was called with trackReads off, on a collector that has sampled other
\* events.
C12_Witness ==
    /\ Bridged
    /\ ~collector.trackReads
    /\ collector.trackWrites
    /\ collector.hasCallback
    /\ lastOp = "onRead"
    /\ call.emitted = <<>>
    /\ collector.totalEntries >= 1

\* C13: after reset() the strategy is empty (size 0, totalPushed 0, totalEvicted
\* 0), the collector's totalErrors, totalInvocations and totalEntries are 0, its
\* observedStages and stageStartTimes are empty, and an onStageEnd without
\* duration emits nothing.
C13_ResetClearsAll ==
    (Bridged /\ lastOp = "reset")
        => /\ GetSnapshot(strategy, now).size = 0
           /\ GetSnapshot(strategy, now).entries = <<>>
           /\ GetSnapshot(strategy, now).totalPushed = 0
           /\ GetSnapshot(strategy, now).totalEvicted = 0
           /\ collector.totalErrors = 0
           /\ collector.totalInvocations = 0
           /\ collector.totalEntries = 0
           /\ collector.observedStages = {}
           /\ DOMAIN collector.stageStartTimes = {}
           /\ \A event \in PlainEvents(now), throws \in BOOLEAN :
                Hook("onStageEnd", collector, strategy, event, throws).emitted = <<>>

\* reset() was called while a stage started was pending.
C13_Witness ==
    /\ Bridged
    /\ lastOp = "reset"
    /\ call # NoCall
    /\ Len(call.emitted) = 1
    /\ call.emitted[1].metric = "stageInvocation"
    /\ collector.totalEntries = 0

----------------------------------------------------------------------------
(* Percentile properties *)

\* C14: every PercentileResult computePercentiles returns has all fields zero
\* when its count is 0 and min <= p50 <= p95 <= p99 <= max when its count is
\* above 0.
C14_BundleOrdered ==
    lastOp = "computePercentiles"
        => LET r == call.result
           IN  IF r.count = 0
               THEN r = F64_zeroPercentiles
               ELSE /\ F64_le(r.min, r.p50)
                    /\ F64_le(r.p50, r.p95)
                    /\ F64_le(r.p95, r.p99)
                    /\ F64_le(r.p99, r.max)

\* C15: for p in 0..100 and an ascending sequence of at least two values,
\* percentile(sorted, p) lies between the first and the last value; it is the
\* first for p = 0 and the last for p = 100.
C15_PercentileWithinRange ==
    (lastOp = "percentile" /\ Len(call.sorted) >= 2)
        => /\ F64_le(call.sorted[1], call.result)
           /\ F64_le(call.result, call.sorted[Len(call.sorted)])
           /\ call.p = 0 => call.result = call.sorted[1]
           /\ call.p = 100 => call.result = call.sorted[Len(call.sorted)]


----------------------------------------------------------------------------
\* The strategy holds no entry for a query made now (a sliding window evicts
\* before it reads).
HoldsNothing == Held(AfterQuery(strategy, now)) = <<>>

\* C16: a query on a strategy that holds no entry (fresh, cleared or fully
\* evicted) is not an error: getPercentiles and getStagePercentiles return the
\* all-zero result, and getMetricResult returns all-zero latencyPercentiles,
\* empty stagePercentiles and stageErrors, totalErrors 0, totalInvocations 0 and
\* entryCount 0.
C16_EmptyQueriesZero ==
    (Direct /\ strategy # NoStrategy /\ HoldsNothing)
        => /\ \A m \in QueryMetrics :
                /\ GetPercentiles(strategy, m, now) = ZeroPercentiles
                /\ \A n \in StageNames :
                        GetStagePercentiles(strategy, n, m, now) = ZeroPercentiles
           /\ LET r == GetMetricResult(strategy, now)
              IN  /\ r.latencyPercentiles = ZeroPercentiles
                  /\ DOMAIN r.stagePercentiles = {}
                  /\ DOMAIN r.stageErrors = {}
                  /\ r.totalErrors = 0
                  /\ r.totalInvocations = 0
                  /\ r.windowInfo.entryCount = 0
           /\ GetSnapshot(strategy, now).size = 0

\* A sliding window that was queried after every entry pushed had left it.
C16_Witness ==
    /\ Direct
    /\ strategy # NoStrategy
    /\ strategy.type = "sliding"
    /\ lastOp = "getMetricResult"
    /\ pushes > 0
    /\ ~disturbed
    /\ strategy.entries = <<>>
    /\ strategy.totalEvicted = strategy.totalPushed
    /\ HoldsNothing

----------------------------------------------------------------------------
(* A ring buffer fed with latency samples *)

RingSampleSizes == {1, 2, 3}

RingSampleLatencies == {10, 20, 30, 40}

RingSamples(t) ==
    { MkEntry("A", "latency", v, t) : v \in RingSampleLatencies }
    \cup { MkEntry("B", "errorCount", 1, t) }

RingPushSample ==
    \E entry \in RingSamples(now) :
        /\ Direct
        /\ strategy.type = "ringBuffer"
        /\ pushes < MaxRingSamples
        /\ strategy' = Ring_push(strategy, entry)
        /\ hist' = Append(hist, entry)
        /\ pushes' = pushes + 1
        /\ lastOp' = "push"
        /\ UNCHANGED <<status, now, disturbed, collector, call, adapter, tree>>

InitRingSamples == InitWith({ Ring_new(m) : m \in RingSampleSizes })

NextRingSamples ==
    \/ RingPushSample
    \/ StrategyGetPercentiles
    \/ StrategyClear

SpecRingSamples == InitRingSamples /\ [][NextRingSamples]_vars

\* C17: what a ring buffer of capacity c answers to getPercentiles after n
\* push() calls is computePercentiles of the last min(n, c) entries pushed; with
\* capacity 3 and the latencies 10, 20, 30, 40 of one stage it is count 3,
\* min 20, max 40, p50 30 (percentiles are in hundredths).
C17_RingStatsOverHeld ==
    (Direct /\ strategy.type = "ringBuffer")
        => /\ \A m \in QueryMetrics :
                Ring_getPercentiles(strategy, m)
                    = computePercentiles(LastN(hist, strategy.maxSize), m)
           /\ (strategy.maxSize = 3 /\ ValuesOf(hist) = <<10, 20, 30, 40>>)
                => LET r == Ring_getPercentiles(strategy, "latency")
                   IN  r.count = 3 /\ r.min = 20 /\ r.max = 40 /\ r.p50 = 100 * 30

\* The buffer of capacity 3 queried after the latencies 10, 20, 30, 40.
C17_Witness ==
    /\ Direct
    /\ strategy.type = "ringBuffer"
    /\ strategy.maxSize = 3
    /\ ValuesOf(hist) = <<10, 20, 30, 40>>
    /\ strategy.totalEvicted = 1
    /\ lastOp = "query"

----------------------------------------------------------------------------
\* What the four queries of a tumbling window answer at instant t.
TumblingAnswers(s, t) ==
    [percentiles |-> [m \in QueryMetrics |-> Tumbling_getPercentiles(s, m)],
     stagePercentiles |->
        [n \in StageNames |->
            [m \in QueryMetrics |-> Tumbling_getStagePercentiles(s, n, m)]],
     snapshotEntries |-> Tumbling_getSnapshot(s).entries,
     metricResult |-> [Tumbling_getMetricResult(s, t) EXCEPT !.windowInfo = @.entryCount]]

\* The same answers computed from a list of entries.
AnswersOver(entries, t) ==
    [percentiles |-> [m \in QueryMetrics |-> computePercentiles(entries, m)],
     stagePercentiles |->
        [n \in StageNames |->
            [m \in QueryMetrics |->
                computePercentiles(SelectSeq(entries, LAMBDA e : e.stageName = n), m)]],
     snapshotEntries |-> entries,
     metricResult |-> [MetricResultOf(entries, 0, t) EXCEPT !.windowInfo = Len(entries)]]

\* C18: the queries of a tumbling window are computed from the active bucket
\* only.  After a push() that crosses the bucket boundary they are the answers
\* over the pushed entry alone, after any other push() the answers over the
\* former active bucket and the pushed entry; what the archive holds never
\* enters them.
C18_ActiveBucketOnly ==
    [][(Direct /\ strategy.type = "tumbling" /\ IsPushStep)
        => LET crossed == Pushed.timestamp >= strategy.bucketStartTime + strategy.windowMs
               active == IF crossed THEN <<Pushed>> ELSE Append(strategy.currentBucket, Pushed)
           IN  /\ TumblingAnswers(strategy', now') = AnswersOver(active, now')
               /\ TumblingAnswers([strategy' EXCEPT !.archivedBuckets = <<>>], now')
                    = TumblingAnswers(strategy', now')]_vars

\* A push has crossed the boundary: the archive holds a latency entry and the
\* active bucket another one, of another value.
C18_Witness ==
    /\ Direct
    /\ strategy.type = "tumbling"
    /\ lastOp = "push"
    /\ Len(strategy.currentBucket) = 1
    /\ strategy.currentBucket[1].metric = "latency"
    /\ Len(strategy.archivedBuckets) > 0
    /\ \E i \in 1..Len(strategy.archivedBuckets) :
            /\ Len(strategy.archivedBuckets[i].entries) = 1
            /\ strategy.archivedBuckets[i].entries[1].metric = "latency"
            /\ strategy.archivedBuckets[i].entries[1].value
                    # strategy.currentBucket[1].value

----------------------------------------------------------------------------
(* A tumbling window of one-instant buckets whose archive fills *)

ArchiveConfigs ==
    { [windowMs |-> 1], [windowMs |-> 1, maxArchivedBuckets |-> 2] }

OnArchive == Direct /\ strategy.type = "tumbling"

\* Time passes, one instant or many.
ArchiveTick ==
    \E t \in (now + 1)..MaxArchiveTime :
        /\ OnArchive
        /\ now' = t
        /\ UNCHANGED <<strategy, status, lastOp, hist, disturbed, pushes, collector, call, adapter, tree>>

ArchivePush ==
    \E entry \in { MkEntry("A", "latency", 10, now) } :
        /\ OnArchive
        /\ pushes < MaxArchivePushes
        /\ strategy' = Tumbling_push(strategy, entry)
        /\ hist' = Append(hist, entry)
        /\ pushes' = pushes + 1
        /\ lastOp' = "push"
        /\ UNCHANGED <<status, now, disturbed, collector, call, adapter, tree>>

InitArchive == InitWith({ Tumbling_constructor(c, 0) : c \in ArchiveConfigs })

NextArchive ==
    \/ ArchiveTick
    \/ ArchivePush
    \/ TumblingFlush
    \/ StrategyClear

SpecArchive == InitArchive /\ [][NextArchive]_vars

\* The numbers of buckets that can have been kept: as many as end the old archive
\* and begin the new one.
KeptBuckets(old, new) ==
    { c \in 0..Min(Len(old), Len(new)) :
        SubSeq(new, 1, c) = SubSeq(old, Len(old) - c + 1, Len(old)) }

\* C19: the archive of a tumbling window never holds more than
\* maxArchivedBuckets buckets (10 when the option is not given).  An operation
\* removes buckets only when the archive would exceed that number, and then from
\* the oldest end: what is left of the old archive is its newest buckets, at the
\* front of the new archive; totalEvicted grows by exactly the entries of the
\* buckets removed, so every entry pushed is in the active bucket, in the
\* archive or counted in totalEvicted.
C19_ArchiveBounded ==
    [][(OnArchive /\ lastOp' # "clear")
        => LET old == strategy.archivedBuckets
               new == strategy'.archivedBuckets
               grown == strategy'.totalEvicted - strategy.totalEvicted
           IN  /\ Len(new) <= strategy.maxArchivedBuckets
               /\ Tumbling_constructor([windowMs |-> 1], now).maxArchivedBuckets = 10
               /\ \E kept \in KeptBuckets(old, new) :
                    LET removedOld == Len(BucketEntries(SubSeq(old, 1, Len(old) - kept)))
                    IN  /\ kept < Len(old) => Len(new) = strategy.maxArchivedBuckets
                        /\ kept > 0 => grown = removedOld
                        /\ kept = 0 => grown >= removedOld
               /\ strategy'.totalPushed
                    = Len(strategy'.currentBucket) + Len(BucketEntries(new))
                        + strategy'.totalEvicted]_vars

\* The default archive of 10 buckets is full and has lost a bucket that held an
\* entry.
C19_Witness ==
    /\ OnArchive
    /\ strategy.maxArchivedBuckets = 10
    /\ Len(strategy.archivedBuckets) = 10
    /\ strategy.totalEvicted = 1
    /\ lastOp = "push"

----------------------------------------------------------------------------
\* A step of flushCurrentBucket(): no other operation leaves the clock, the
\* pushes and "flushCurrentBucket" as the last operation.
IsFlushStep ==
    /\ Direct
    /\ strategy.type = "tumbling"
    /\ lastOp' = "flushCurrentBucket"
    /\ now' = now
    /\ pushes' = pushes
    /\ hist' = hist

\* C20: flushCurrentBucket() on an active bucket that holds an entry closes it
\* however little of windowMs has elapsed: the entries become the newest
\* archived bucket, from the former bucket start to the current instant, with
\* the percentiles of those entries; that bucket is returned; the active bucket
\* is empty and starts at the current instant.
C20_FlushArchivesActive ==
    [][(IsFlushStep /\ Len(strategy.currentBucket) > 0)
        => LET archived == strategy'.archivedBuckets
               newest == archived[Len(archived)]
           IN  /\ Len(archived) > 0
               /\ newest.entries = strategy.currentBucket
               /\ newest.startTime = strategy.bucketStartTime
               /\ newest.endTime = now
               /\ newest.percentiles = computePercentiles(strategy.currentBucket, "latency")
               /\ Tumbling_flushReturns(strategy, now) = newest
               /\ strategy'.currentBucket = <<>>
               /\ strategy'.bucketStartTime = now
               /\ strategy'.totalPushed = strategy.totalPushed
               /\ status' = "ok"]_vars

\* A bucket flushed at the instant it started, before any of windowMs elapsed.
C20_Witness ==
    /\ Direct
    /\ strategy.type = "tumbling"
    /\ lastOp = "flushCurrentBucket"
    /\ strategy.currentBucket = <<>>
    /\ strategy.bucketStartTime = now
    /\ Len(strategy.archivedBuckets) > 0
    /\ LET newest == strategy.archivedBuckets[Len(strategy.archivedBuckets)]
       IN  /\ Len(newest.entries) > 0
           /\ newest.endTime = now
           /\ newest.endTime < newest.startTime + strategy.windowMs

----------------------------------------------------------------------------
\* A step of clear(): no other operation leaves the clock and "clear" as the
\* last operation.
IsClearStep == Direct /\ lastOp' = "clear" /\ now' = now

\* C21: clear() on any strategy, in any state, gives the empty state and leaves
\* the configuration alone: the snapshot has size 0, totalPushed 0 and
\* totalEvicted 0, getConfig() answers as before, the ring buffer's head is 0,
\* and the tumbling window has no archived bucket and an active bucket that
\* starts at the current instant.
C21_ClearEmptiesKeepsConfig ==
    [][IsClearStep
        => /\ status' = "ok"
           /\ GetSnapshot(strategy', now').size = 0
           /\ GetSnapshot(strategy', now').entries = <<>>
           /\ GetSnapshot(strategy', now').totalPushed = 0
           /\ GetSnapshot(strategy', now').totalEvicted = 0
           /\ GetConfig(strategy') = GetConfig(strategy)
           /\ strategy'.type = strategy.type
           /\ strategy.type = "ringBuffer"
                => /\ strategy'.head = 0
                   /\ strategy'.maxSize = strategy.maxSize
           /\ strategy.type = "tumbling"
                => /\ strategy'.archivedBuckets = <<>>
                   /\ strategy'.bucketStartTime = now
                   /\ strategy'.maxArchivedBuckets = strategy.maxArchivedBuckets]_vars

\* A tumbling window cleared after its boundary had been set at an earlier
\* instant and entries had been pushed.
C21_Witness ==
    /\ Direct
    /\ lastOp = "clear"
    /\ strategy.type = "tumbling"
    /\ pushes > 0
    /\ now > 0
    /\ strategy.totalPushed = 0
    /\ strategy.bucketStartTime = now

----------------------------------------------------------------------------
(* adapters: the CollectMetric stage *)

AdapterNames == {"datadog", "mock", "prometheus", "console", "cloudwatch"}

\* createWindowStrategy(windowConfig) with the adapter's own type of window.
Adapter_createWindowStrategy(name, t) ==
    CASE name = "datadog"    -> Sliding_new(2)
      [] name = "cloudwatch" -> Tumbling_constructor([windowMs |-> 2], t)
      [] OTHER               -> Ring_new(2)

\* A raw entry of the input: stageName or metric "" when it is missing, and the
\* typeof its value.
MkRawEntry(s, m, valueType, t) ==
    [stageName |-> s, metric |-> m, value |-> IF valueType = "number" THEN 10 ELSE 0,
     valueType |-> valueType, timestamp |-> t]

RawEntries(t) ==
    { MkRawEntry(s, m, vt, t) :
        s \in {"A", ""}, m \in {"latency", ""}, vt \in {"number", "string"} }

RECURSIVE SeqsUpTo(_, _)
SeqsUpTo(S, n) ==
    IF n = 0 THEN { <<>> }
    ELSE SeqsUpTo(S, n - 1)
         \cup { Append(q, x) : q \in { r \in SeqsUpTo(S, n - 1) : Len(r) = n - 1 }, x \in S }

\* scope.getValue(NAMESPACE, INPUT.ENTRIES): undefined, or a list of raw entries.
RawInputs(t) ==
    { [defined |-> FALSE, entries |-> <<>>] }
    \cup { [defined |-> TRUE, entries |-> q] : q \in SeqsUpTo(RawEntries(t), MaxRawEntries) }

\* entry.stageName && entry.metric && typeof entry.value === 'number'
Adapter_isValid(entry) ==
    entry.stageName # "" /\ entry.metric # "" /\ entry.valueType = "number"

\* The strategy after strategy.push(entry) for each valid entry, in order.
RECURSIVE Adapter_pushValid(_, _)
Adapter_pushValid(s, entries) ==
    IF entries = <<>> THEN s
    ELSE Adapter_pushValid(
            IF Adapter_isValid(Head(entries))
            THEN Push(s, MkEntry(Head(entries).stageName, Head(entries).metric,
                                 Head(entries).value, Head(entries).timestamp))
            ELSE s,
            Tail(entries))

\* collectMetric of MockDatadogAdapter, MockMetricAdapter, MockPrometheusAdapter
\* and MockCloudWatchAdapter: what it records as VALIDATED_ENTRIES.
Adapter_validated(input) ==
    IF ~input.defined \/ Len(input.entries) = 0 THEN <<>>
    ELSE SelectSeq(input.entries, Adapter_isValid)

\* collectMetric of ConsoleMetricAdapter records the entries it read.
Console_validated(input) ==
    IF ~input.defined \/ Len(input.entries) = 0 THEN <<>>
    ELSE input.entries

Adapter_new(name, t) ==
    [name |-> name, collects |-> 0, input |-> [defined |-> FALSE, entries |-> <<>>],
     validated |-> <<>>, ingested |-> <<>>]

OnAdapter == status = "ok" /\ adapter # NoAdapter

\* One run of the CollectMetric stage on a raw input.
AdapterCollectMetric ==
    \E input \in RawInputs(now) :
        /\ OnAdapter
        /\ adapter.collects < MaxCollects
        /\ strategy' = Adapter_pushValid(strategy, input.entries)
        /\ adapter' = [adapter EXCEPT
                !.collects = @ + 1,
                !.input = input,
                !.validated = IF adapter.name = "console"
                              THEN Console_validated(input)
                              ELSE Adapter_validated(input),
                !.ingested = SelectSeq(input.entries, Adapter_isValid)]
        /\ lastOp' = "collectMetric"
        /\ UNCHANGED <<status, now, hist, disturbed, pushes, collector, call, tree>>

InitAdapter ==
    /\ \E name \in AdapterNames :
            /\ adapter = Adapter_new(name, 0)
            /\ strategy = Adapter_createWindowStrategy(name, 0)
    /\ status = "ok"
    /\ now = 0
    /\ lastOp = "constructor"
    /\ hist = <<>>
    /\ disturbed = FALSE
    /\ pushes = 0
    /\ collector = NoCollector
    /\ call = NoCall
    /\ tree = NoTree

NextAdapter == AdapterCollectMetric

SpecAdapter == InitAdapter /\ [][NextAdapter]_vars

\* C22: in every adapter's CollectMetric stage an entry without stageName,
\* without metric or with a value that is not a number is not pushed to the
\* strategy, raises nothing, and is not among the validated entries recorded
\* for the later stages: the validated entries are exactly the entries pushed.
C22_MalformedExcluded ==
    (OnAdapter /\ lastOp = "collectMetric")
        => /\ \A i \in 1..Len(adapter.ingested) : Adapter_isValid(adapter.ingested[i])
           /\ adapter.validated = adapter.ingested
           /\ \A i \in 1..Len(adapter.validated) : Adapter_isValid(adapter.validated[i])

----------------------------------------------------------------------------
\* C23: every push() on a tumbling window returns, whatever the timestamp and
\* whatever windowMs the constructor accepted, and it adds at most
\* floor((timestamp - bucketStartTime) / windowMs) buckets to the archive (none
\* for a timestamp before the bucket's end).
C23_PushTerminates ==
    [][(Direct /\ strategy # NoStrategy /\ strategy.type = "tumbling")
        => /\ status' # "hung"
           /\ IsPushStep
                => LET ts == Pushed.timestamp
                       start == strategy.bucketStartTime
                       added == Len(strategy'.archivedBuckets) - Len(strategy.archivedBuckets)
                   IN  IF ts >= start + strategy.windowMs
                       THEN added <= (ts - start) \div strategy.windowMs
                       ELSE added <= 0]_vars

----------------------------------------------------------------------------
\* A step of one of the four queries: no other operation leaves the clock and
\* the pushes and names a query as the last operation.
IsQueryStep ==
    /\ Direct
    /\ lastOp' \in {"query", "getMetricResult"}
    /\ now' = now
    /\ pushes' = pushes

\* C24: every query of a sliding window first evicts with Date.now() as the
\* reference: afterwards the window holds, in their former order, the entries
\* with timestamp >= now - windowMs, totalEvicted has grown by the number of
\* entries removed, and the four answers are computed from those entries only.
C24_SlidingQueryEvicts ==
    [][(IsQueryStep /\ strategy.type = "sliding")
        => LET kept == SelectSeq(strategy.entries,
                                 LAMBDA e : e.timestamp >= now - strategy.windowMs)
           IN  /\ strategy'.entries = kept
               /\ strategy'.totalEvicted
                    = strategy.totalEvicted + (Len(strategy.entries) - Len(kept))
               /\ strategy'.totalPushed = strategy.totalPushed
               /\ \A m \in QueryMetrics :
                    /\ Sliding_getPercentiles(strategy, m, now) = computePercentiles(kept, m)
                    /\ \A n \in StageNames :
                            Sliding_getStagePercentiles(strategy, n, m, now)
                                = computePercentiles(
                                    SelectSeq(kept, LAMBDA e : e.stageName = n), m)
               /\ Sliding_getSnapshot(strategy, now).entries = kept
               /\ Sliding_getSnapshot(strategy, now).totalEvicted = strategy'.totalEvicted
               /\ [Sliding_getMetricResult(strategy, now) EXCEPT !.windowInfo = @.entryCount]
                    = [MetricResultOf(kept, 0, now) EXCEPT !.windowInfo = Len(kept)]]_vars

\* A window of one instant queried at instant 2 after entries at 0 and 1: the
\* query removed the first (no push could) and kept the second.
C24_Witness ==
    /\ Direct
    /\ strategy.type = "sliding"
    /\ strategy.windowMs = 1
    /\ lastOp \in {"query", "getMetricResult"}
    /\ now = 2
    /\ Len(hist) = 2
    /\ hist[1].timestamp = 0
    /\ hist[2].timestamp = 1
    /\ strategy.entries = <<hist[2]>>
    /\ strategy.totalEvicted = 1

----------------------------------------------------------------------------
\* The stages with a latency entry among the entries.
LatencyStages(entries) ==
    { n \in StageNames : \E i \in 1..Len(entries) :
                            entries[i].stageName = n /\ entries[i].metric = "latency" }

\* C25: in every result of getMetricResult the keys of stagePercentiles are the
\* stages that have a latency entry in the window, and the value of each is what
\* getStagePercentiles(stage) answers in the same state: computePercentiles of
\* that stage's latency entries alone.
C25_StagePercentilesKeys ==
    (Direct /\ strategy # NoStrategy)
        => LET r == GetMetricResult(strategy, now)
               held == Held(AfterQuery(strategy, now))
           IN  /\ DOMAIN r.stagePercentiles = LatencyStages(held)
               /\ \A n \in LatencyStages(held) :
                    /\ r.stagePercentiles[n]
                            = GetStagePercentiles(strategy, n, "latency", now)
                    /\ r.stagePercentiles[n]
                            = computePercentiles(
                                SelectSeq(held, LAMBDA e : e.stageName = n
                                                            /\ e.metric = "latency"),
                                "latency")
                    /\ r.stagePercentiles[n].count > 0

\* getMetricResult on a window that holds latency entries of two stages and an
\* error entry.
C25_Witness ==
    /\ Direct
    /\ strategy # NoStrategy
    /\ lastOp = "getMetricResult"
    /\ LatencyStages(Held(strategy)) = {"A", "B"}
    /\ \E i \in 1..Len(Held(strategy)) : Held(strategy)[i].metric = "errorCount"

----------------------------------------------------------------------------
\* Every ordering of the entries of a sequence.
Orderings(s) ==
    { [i \in 1..Len(s) |-> s[f[i]]] :
        f \in { g \in [1..Len(s) -> 1..Len(s)] :
                    \A i, j \in 1..Len(s) : g[i] = g[j] => i = j } }

\* C26: computePercentiles, computeStagePercentiles and computeStageErrors
\* answer the same for every ordering of the same entries, and leave the entries
\* handed over as they were.
C26_OrderIndependent ==
    /\ lastOp = "computePercentiles"
        => /\ call.entries = hist
           /\ \A q \in Orderings(call.entries) :
                F64_computePercentiles(q, "latency") = call.result
    /\ lastOp = "computeStagePercentiles"
        => /\ call.entries = hist
           /\ \A q \in Orderings(call.entries) :
                F64_computeStagePercentiles(q, "latency") = call.result
    /\ lastOp = "computeStageErrors"
        => /\ call.entries = hist
           /\ \A q \in Orderings(call.entries) :
                F64_computeStageErrors(q) = call.result

\* The part of C26 about computePercentiles and computeStagePercentiles alone.
C26_PercentilesOrderIndependent ==
    /\ lastOp = "computePercentiles"
        => /\ call.entries = hist
           /\ \A q \in Orderings(call.entries) :
                F64_computePercentiles(q, "latency") = call.result
    /\ lastOp = "computeStagePercentiles"
        => /\ call.entries = hist
           /\ \A q \in Orderings(call.entries) :
                F64_computeStagePercentiles(q, "latency") = call.result

----------------------------------------------------------------------------
\* What C27 says of a call on two values or more, lower and upper being the
\* floor and the ceiling of the index.
InterpolatesBetween(sorted, result, lower, upper) ==
    /\ lower = upper => result = sorted[lower + 1]
    /\ (lower # upper /\ sorted[lower + 1] # sorted[upper + 1])
        => /\ F64_cmp(sorted[lower + 1], result) < 0
           /\ F64_cmp(result, sorted[upper + 1]) < 0

InterpolatesAt(sorted, result, index) ==
    InterpolatesBetween(sorted, result, F64_floor(index), F64_ceil(index))

\* C27: percentile(sorted, p) is 0 for no value and the value itself for one
\* value; for more it is sorted[index] when index = p/100 * (length - 1) is whole
\* and otherwise lies strictly between the two values next to the index when
\* these differ.
C27_PercentileInterpolates ==
    lastOp = "percentile"
        => /\ Len(call.sorted) = 0 => call.result = F64_zero
           /\ Len(call.sorted) = 1 => call.result = call.sorted[1]
           /\ Len(call.sorted) >= 2
                => InterpolatesAt(call.sorted, call.result,
                        F64_mul(F64_divInt(call.p, 100), F64_fromInt(Len(call.sorted) - 1)))

----------------------------------------------------------------------------
(* tree/ExecutionTree *)

\* The ids of the stages handed to the tree.
StageIds == {"s1", "s2", "s3"}

\* StageData without a parentId.
NoParent == ""

\* map.set(k, v)
MapSet(m, k, v) == [x \in (DOMAIN m) \cup {k} |-> IF x = k THEN v ELSE m[x]]

\* new ExecutionTree(); also the tree after clear().
ExecutionTree_new ==
    [stages |-> <<>>, nodes |-> <<>>, rootIds |-> <<>>, insertionOrder |-> <<>>]

MkStageData(id, parentId, hasError) ==
    [id |-> id, parentId |-> parentId, hasError |-> hasError]

\* The stages a caller adds, in any order: addStage takes any parentId, that of
\* a stage added later and that of the stage itself included.
StageDatas ==
    { MkStageData(c[1], c[2], FALSE) : c \in StageIds \X (StageIds \cup {NoParent}) }

\* this.nodes.get(id)?.depth ?? 0
ExecutionTree_getDepth(t, id) ==
    IF id \in DOMAIN t.nodes THEN t.nodes[id].depth ELSE 0

\* A node keeps its children as references; they are held here by id, the ids
\* of the stages added being distinct.
ExecutionTree_createNode(t, data) ==
    [id         |-> data.id,
     depth      |-> IF data.parentId # NoParent
                    THEN ExecutionTree_getDepth(t, data.parentId) + 1 ELSE 0,
     children   |-> <<>>,
     hasDetails |-> FALSE,
     status     |-> IF data.hasError THEN "error" ELSE "success"]

\* The tree with the node of data.id among the children of its parent, when the
\* parent has a node.
ExecutionTree_attach(t, data) ==
    IF data.parentId # NoParent
    THEN IF data.parentId \in DOMAIN t.nodes
         THEN [t EXCEPT !.nodes[data.parentId].children = Append(@, data.id),
                        !.nodes[data.parentId].hasDetails = TRUE]
         ELSE t
    ELSE [t EXCEPT !.rootIds = Append(@, data.id)]

ExecutionTree_addStage(t, data) ==
    ExecutionTree_attach(
        [t EXCEPT !.stages = MapSet(@, data.id, data),
                  !.insertionOrder = Append(@, data.id),
                  !.nodes = MapSet(@, data.id, ExecutionTree_createNode(t, data))],
        data)

\* updateStage(id, { hasError: true })
ExecutionTree_updateStage(t, id) ==
    IF id \notin DOMAIN t.stages THEN t
    ELSE [t EXCEPT
            !.stages[id].hasError = TRUE,
            !.nodes[id] = [ExecutionTree_createNode(t, [t.stages[id] EXCEPT !.hasError = TRUE])
                            EXCEPT !.children = t.nodes[id].children,
                                   !.hasDetails = t.nodes[id].hasDetails]]

\* getChildren(id), as the ids of the nodes.
ExecutionTree_getChildren(t, id) ==
    IF id \in DOMAIN t.nodes THEN t.nodes[id].children ELSE <<>>

OnTree == status = "ok" /\ tree # NoTree

TreeAddStage ==
    \E data \in StageDatas :
        /\ OnTree
        /\ data.id \notin DOMAIN tree.stages
        /\ tree' = ExecutionTree_addStage(tree, data)
        /\ lastOp' = "addStage"
        /\ UNCHANGED <<strategy, status, now, hist, disturbed, pushes, collector, call, adapter>>

\* The walk of getPath from currentId towards the root: the path so far, and
\* whether the walk comes back to a stage it has been at, which it then does
\* for ever.
RECURSIVE ExecutionTree_walk(_, _, _)
ExecutionTree_walk(t, currentId, seen) ==
    IF currentId = NoParent THEN [hangs |-> FALSE, path |-> <<>>]
    ELSE IF currentId \in seen THEN [hangs |-> TRUE, path |-> <<>>]
    ELSE IF currentId \notin DOMAIN t.stages THEN [hangs |-> FALSE, path |-> <<currentId>>]
    ELSE [ExecutionTree_walk(t, t.stages[currentId].parentId, seen \cup {currentId})
            EXCEPT !.path = Append(@, currentId)]

\* getPath(id) never returns: while (currentId) follows parentId round a cycle.
ExecutionTree_getPathHangs(t, id) == ExecutionTree_walk(t, id, {}).hangs

ExecutionTree_getPath(t, id) == ExecutionTree_walk(t, id, {}).path

\* The depth of a node grows with every updateStage of a stage that is its own
\* ancestor; the depths tried end here.
MaxDepth == 3

TreeUpdateStage ==
    \E id \in StageIds :
        /\ OnTree
        /\ \A n \in DOMAIN ExecutionTree_updateStage(tree, id).nodes :
                ExecutionTree_updateStage(tree, id).nodes[n].depth <= MaxDepth
        /\ tree' = ExecutionTree_updateStage(tree, id)
        /\ lastOp' = "updateStage"
        /\ UNCHANGED <<strategy, status, now, hist, disturbed, pushes, collector, call, adapter>>

TreeClear ==
    /\ OnTree
    /\ tree' = ExecutionTree_new
    /\ lastOp' = "clear"
    /\ UNCHANGED <<strategy, status, now, hist, disturbed, pushes, collector, call, adapter>>

InitTree ==
    /\ tree = ExecutionTree_new
    /\ strategy = NoStrategy
    /\ status = "ok"
    /\ now = 0
    /\ lastOp = "constructor"
    /\ hist = <<>>
    /\ disturbed = FALSE
    /\ pushes = 0
    /\ collector = NoCollector
    /\ call = NoCall
    /\ adapter = NoAdapter

TreeGetPath ==
    \E id \in StageIds :
        /\ OnTree
        /\ ~ExecutionTree_getPathHangs(tree, id)
        /\ call' = [id |-> id, path |-> ExecutionTree_getPath(tree, id)]
        /\ lastOp' = "getPath"
        /\ UNCHANGED <<strategy, status, now, hist, disturbed, pushes, collector, adapter, tree>>

\* getPath(id) on a tree where the walk from id never ends: the call does not
\* return.
TreeGetPathHangs ==
    \E id \in StageIds :
        /\ OnTree
        /\ ExecutionTree_getPathHangs(tree, id)
        /\ status' = "hung"
        /\ call' = [id |-> id, path |-> <<>>]
        /\ lastOp' = "getPath"
        /\ UNCHANGED <<strategy, now, hist, disturbed, pushes, collector, adapter, tree>>

NextTree ==
    \/ TreeAddStage
    \/ TreeUpdateStage
    \/ TreeClear
    \/ TreeGetPath
    \/ TreeGetPathHangs

SpecTree == InitTree /\ [][NextTree]_vars

\* C28: whatever the order the stages were added in, every stage whose parentId
\* names a stage of the tree is among the children of that parent.
C28_ChildrenAnyOrder ==
    tree # NoTree
        => \A id \in DOMAIN tree.stages :
                tree.stages[id].parentId \in DOMAIN tree.stages
                    => \E i \in 1..Len(ExecutionTree_getChildren(tree, tree.stages[id].parentId)) :
                            ExecutionTree_getChildren(tree, tree.stages[id].parentId)[i] = id

\* The same for the stages that were added after their parent.
C28_ChildrenWhenParentFirst ==
    tree # NoTree
        => \A id \in DOMAIN tree.stages :
                (/\ tree.stages[id].parentId \in DOMAIN tree.stages
                 /\ \E i, j \in 1..Len(tree.insertionOrder) :
                        /\ i < j
                        /\ tree.insertionOrder[i] = tree.stages[id].parentId
                        /\ tree.insertionOrder[j] = id)
                    => \E i \in 1..Len(ExecutionTree_getChildren(tree, tree.stages[id].parentId)) :
                            ExecutionTree_getChildren(tree, tree.stages[id].parentId)[i] = id

----------------------------------------------------------------------------
\* C29: the entries a sliding window answers in getSnapshot() have
\* non-decreasing timestamps, whatever the order the timestamps were pushed in.
C29_SlidingEntriesSorted ==
    (Direct /\ strategy # NoStrategy /\ strategy.type = "sliding")
        => \A i, j \in 1..Len(GetSnapshot(strategy, now).entries) :
                i < j => GetSnapshot(strategy, now).entries[i].timestamp
                            <= GetSnapshot(strategy, now).entries[j].timestamp

----------------------------------------------------------------------------
\* C30: onStageEnd with a duration d emits exactly one entry, the stage's latency
\* of value d at the timestamp of the event, whether a start of the stage is
\* pending or not; and every onStageEnd, with a duration or without, leaves
\* stageStartTimes without the stage and with the other stages as they were.
C30_EndWithDuration ==
    [][ (IsHookStep("onStageEnd") /\ call'.outcome = "returned")
        => /\ call'.event.hasDuration
                => /\ call'.emitted = <<MkEntry(call'.event.stageName, "latency",
                                                call'.event.duration,
                                                call'.event.timestamp)>>
                   /\ strategy' = Push(strategy, call'.emitted[1])
                   /\ collector'.totalEntries = collector.totalEntries + 1
           /\ collector'.stageStartTimes
                = MapDelete(collector.stageStartTimes, call'.event.stageName)
      ]_vars

\* onStageEnd with a duration has emitted it for a stage whose start was
\* pending: since the last reset there were this stage's onStageStart and this
\* end, and nothing else that emits.
C30_Witness ==
    /\ Bridged
    /\ lastOp = "onStageEnd"
    /\ call.event.hasDuration
    /\ call.emitted = <<MkEntry(call.event.stageName, "latency",
                                call.event.duration, call.event.timestamp)>>
    /\ collector.totalEntries = 2
    /\ collector.totalInvocations = 1
    /\ collector.observedStages = {call.event.stageName}
    /\ call.event.stageName \notin DOMAIN collector.stageStartTimes

----------------------------------------------------------------------------
\* C31: observedStages holds the stage of every event a hook has received since
\* the last reset and nothing else: each hook adds the stage of its event, reset
\* empties the set, and nothing else changes it.
C31_ObservedStages ==
    [][ Bridged =>
        /\ \A name \in HookNames :
                IsHookStep(name)
                    => collector'.observedStages
                            = collector.observedStages \cup {call'.event.stageName}
        /\ lastOp' = "reset" => collector'.observedStages = {}
        /\ collector'.observedStages # collector.observedStages
            => lastOp' \in HookNames \cup {"reset"}
      ]_vars

\* The same with the hooks that record the stage, onStageStart and onError,
\* told from those that leave the set alone.
C31_ObservedStartsAndErrors ==
    [][ Bridged =>
        /\ \A name \in HookNames :
                IsHookStep(name)
                    => collector'.observedStages
                            = IF name \in {"onStageStart", "onError"}
                              THEN collector.observedStages \cup {call'.event.stageName}
                              ELSE collector.observedStages
        /\ lastOp' = "reset" => collector'.observedStages = {}
        /\ collector'.observedStages # collector.observedStages
            => lastOp' \in {"onStageStart", "onError", "reset"}
      ]_vars

----------------------------------------------------------------------------
(* A caller that changes the array it got from getSnapshot() *)

\* The strategy after the caller has emptied snapshot.entries: the array is the
\* one getEntries() has just built, not the buffer.
Ring_afterSnapshotChange(s) == s

\* A bug: the snapshot hands out the bucket itself.
Tumbling_afterSnapshotChange_shared(s) == [s EXCEPT !.currentBucket = <<>>]

\* entries: [...this.currentBucket] is a new array.
Tumbling_afterSnapshotChange(s) == s

\* this.evictStale(), then entries: [...this.entries], a new array.
Sliding_afterSnapshotChange(s, t) == Sliding_afterQuery(s, t)

AfterSnapshotChange(s, t) ==
    IF s.type = "ringBuffer" THEN Ring_afterSnapshotChange(s)
    ELSE IF s.type = "tumbling" THEN Tumbling_afterSnapshotChange(s)
    ELSE Sliding_afterSnapshotChange(s, t)

\* const snap = strategy.getSnapshot(); snap.entries.length = 0
StrategyChangeSnapshot ==
    /\ Direct
    /\ strategy' = AfterSnapshotChange(strategy, now)
    /\ lastOp' = "changeSnapshot"
    /\ UNCHANGED <<status, now, hist, disturbed, pushes, collector, call, adapter, tree>>

NextSnapshot == Next \/ StrategyChangeSnapshot

SpecSnapshot == Init /\ [][NextSnapshot]_vars

\* A step of a query, of getConfig(), or of a caller changing a snapshot.
IsReadStep ==
    /\ Direct
    /\ lastOp' \in {"query", "getMetricResult", "getConfig", "changeSnapshot"}
    /\ now' = now
    /\ pushes' = pushes
    /\ hist' = hist

----------------------------------------------------------------------------
\* The number of entries in the archived buckets.
RECURSIVE ArchivedCount(_)
ArchivedCount(buckets) ==
    IF buckets = <<>> THEN 0
    ELSE Len(Head(buckets).entries) + ArchivedCount(Tail(buckets))

\* C33: at every moment a ring buffer and a sliding window hold totalPushed -
\* totalEvicted entries, and a tumbling window has totalPushed = entries of the
\* current bucket + entries of the archived buckets + totalEvicted.
C33_EntriesConserved ==
    (Direct /\ strategy # NoStrategy)
        => CASE strategy.type = "ringBuffer"
                    -> /\ strategy.totalPushed - strategy.totalEvicted = strategy.size
                       /\ strategy.size = Len(Ring_getEntries(strategy))
             [] strategy.type = "sliding"
                    -> strategy.totalPushed - strategy.totalEvicted = Len(strategy.entries)
             [] strategy.type = "tumbling"
                    -> strategy.totalPushed
                            = Len(strategy.currentBucket)
                                + ArchivedCount(strategy.archivedBuckets)
                                + strategy.totalEvicted

\* A tumbling window has evicted an archived bucket that held an entry, and
\* still holds an entry in its bucket or in its archive.
C33_Witness ==
    /\ Direct
    /\ strategy # NoStrategy
    /\ strategy.type = "tumbling"
    /\ strategy.totalEvicted > 0
    /\ Len(strategy.currentBucket) + ArchivedCount(strategy.archivedBuckets) > 0

----------------------------------------------------------------------------
\* The timestamps of the entries never decrease.
InTimestampOrder(entries) ==
    \A i, j \in 1..Len(entries) : i < j => entries[i].timestamp <= entries[j].timestamp

\* Every entry has startTime <= timestamp < endTime.
EntriesWithin(entries, startTime, endTime) ==
    \A i \in 1..Len(entries) :
        startTime <= entries[i].timestamp /\ entries[i].timestamp < endTime

\* C34: a tumbling window that was only pushed to, with timestamps that never
\* decrease and none before the bucket start of the constructor, holds in its
\* current bucket only entries with bucketStartTime <= timestamp <
\* bucketStartTime + windowMs, and in each archived bucket only entries with
\* startTime <= timestamp < endTime of that bucket.
C34_EntriesInTheirBucket ==
    (/\ Direct
     /\ strategy # NoStrategy
     /\ strategy.type = "tumbling"
     /\ ~disturbed
     /\ InTimestampOrder(hist)
     /\ EntriesWithin(hist, 0, MaxTime + 1))
        => /\ EntriesWithin(strategy.currentBucket, strategy.bucketStartTime,
                            strategy.bucketStartTime + strategy.windowMs)
           /\ \A b \in 1..Len(strategy.archivedBuckets) :
                /\ EntriesWithin(strategy.archivedBuckets[b].entries,
                                 strategy.archivedBuckets[b].startTime,
                                 strategy.archivedBuckets[b].endTime)
                /\ strategy.archivedBuckets[b].endTime
                        = strategy.archivedBuckets[b].startTime + strategy.windowMs

\* Two entries in timestamp order, the first in an archived bucket, the second
\* in the current bucket.
C34_Witness ==
    /\ Direct
    /\ strategy # NoStrategy
    /\ strategy.type = "tumbling"
    /\ ~disturbed
    /\ lastOp = "push"
    /\ InTimestampOrder(hist)
    /\ Len(hist) = 2
    /\ strategy.currentBucket = <<hist[2]>>
    /\ \E b \in 1..Len(strategy.archivedBuckets) :
            strategy.archivedBuckets[b].entries = <<hist[1]>>

----------------------------------------------------------------------------
\* The pending start of stage n, as a sequence of no or one timestamp.
PendingStart(c, n) ==
    IF n \in DOMAIN c.stageStartTimes THEN <<c.stageStartTimes[n]>> ELSE <<>>

\* C35: the events of one stage leave the pending starts of the other stages as
\* they are: onStageStart of stage n at time s makes s the pending start of n,
\* onStageEnd of n removes it, and no event of another stage, no query and no
\* passing of time changes it; so stageStartTimes holds exactly the stages
\* started and not ended since, each with its latest start, and onStageEnd
\* without a duration emits the latency e - s from that latest start whatever
\* came between.
C35_StagesIndependent ==
    [][ Bridged =>
        /\ \A name \in HookNames :
            IsHookStep(name)
                => /\ \A m \in StageNames \ {call'.event.stageName} :
                        PendingStart(collector', m) = PendingStart(collector, m)
                   /\ PendingStart(collector', call'.event.stageName)
                        = IF name = "onStageStart" THEN <<call'.event.timestamp>>
                          ELSE IF name = "onStageEnd" THEN <<>>
                          ELSE PendingStart(collector, call'.event.stageName)
        /\ (now' # now \/ lastOp' \notin HookNames \cup {"reset"})
            => collector'.stageStartTimes = collector.stageStartTimes
        /\ (IsHookStep("onStageEnd") /\ ~call'.event.hasDuration)
            => call'.emitted
                = IF call'.event.stageName \in DOMAIN collector.stageStartTimes
                  THEN <<MkEntry(call'.event.stageName, "latency",
                                 call'.event.timestamp
                                    - collector.stageStartTimes[call'.event.stageName],
                                 call'.event.timestamp)>>
                  ELSE <<>>
      ]_vars

\* Stage A has ended, with its latency measured from its own start, while stage
\* B, started after A, is still pending.
C35_Witness ==
    /\ Bridged
    /\ lastOp = "onStageEnd"
    /\ ~call.event.hasDuration
    /\ call.event.stageName = "A"
    /\ Len(call.emitted) = 1
    /\ DOMAIN collector.stageStartTimes = {"B"}
    /\ call.event.timestamp - call.emitted[1].value < collector.stageStartTimes["B"]
    /\ collector.stageStartTimes["B"] < call.event.timestamp

----------------------------------------------------------------------------
\* C36: onStageStart of a stage whose start is pending already overwrites the
\* pending start with its own timestamp and counts as one more invocation; the
\* onStageEnd without a duration that follows emits one latency, measured from
\* that latest start, and an onStageEnd without a duration right after an
\* onStageEnd of the same stage emits nothing.
C36_RestartOverwrites ==
    [][ Bridged =>
        /\ (IsHookStep("onStageStart")
                /\ call'.event.stageName \in DOMAIN collector.stageStartTimes)
            => /\ collector'.stageStartTimes
                    = [collector.stageStartTimes
                            EXCEPT ![call'.event.stageName] = call'.event.timestamp]
               /\ collector'.totalInvocations = collector.totalInvocations + 1
               /\ call'.emitted = <<MkEntry(call'.event.stageName, "stageInvocation", 1,
                                            call'.event.timestamp)>>
        /\ (IsHookStep("onStageEnd") /\ ~call'.event.hasDuration
                /\ call'.event.stageName \in DOMAIN collector.stageStartTimes)
            => /\ Len(call'.emitted) = 1
               /\ call'.emitted[1].metric = "latency"
               /\ call'.emitted[1].value
                    = call'.event.timestamp
                        - collector.stageStartTimes[call'.event.stageName]
               /\ call'.event.stageName \notin DOMAIN collector'.stageStartTimes
        /\ (IsHookStep("onStageEnd") /\ ~call'.event.hasDuration
                /\ lastOp = "onStageEnd"
                /\ call.event.stageName = call'.event.stageName)
            => /\ call'.emitted = <<>>
               /\ collector'.totalEntries = collector.totalEntries
      ]_vars

\* Since the last reset a stage has started twice and ended once, without a
\* duration: two invocations are counted and the latency emitted is that from a
\* start one instant before the end.
C36_Witness ==
    /\ Bridged
    /\ lastOp = "onStageEnd"
    /\ ~call.event.hasDuration
    /\ Len(call.emitted) = 1
    /\ call.emitted[1].value = 1
    /\ call.event.timestamp = 2
    /\ collector.totalInvocations = 2
    /\ collector.totalEntries = 3
    /\ collector.observedStages = {call.event.stageName}
    /\ call.event.stageName \notin DOMAIN collector.stageStartTimes

----------------------------------------------------------------------------
\* C37: onStageEnd without a duration for a stage that has no pending start
\* emits nothing, does not call onMetricEntry, and leaves the collector, its
\* counters and maps, and the strategy as they were.
C37_EndWithoutStartIgnored ==
    [][ (IsHookStep("onStageEnd") /\ ~call'.event.hasDuration
            /\ call'.event.stageName \notin DOMAIN collector.stageStartTimes)
        => /\ call'.emitted = <<>>
           /\ ~call'.callbackThrew
           /\ call'.outcome = "returned"
           /\ collector' = collector
           /\ strategy' = strategy
      ]_vars

\* Such an end, received by a collector with a callback that has emitted entries
\* before and has the start of another stage pending.
C37_Witness ==
    /\ Bridged
    /\ lastOp = "onStageEnd"
    /\ ~call.event.hasDuration
    /\ call.emitted = <<>>
    /\ collector.hasCallback
    /\ collector.totalEntries > 0
    /\ collector.stageStartTimes # << >>
    /\ Len(Held(strategy)) > 0

----------------------------------------------------------------------------
\* C38: flushCurrentBucket() on an empty current bucket returns null and leaves
\* the strategy as it was: archived buckets, bucketStartTime, totalPushed and
\* totalEvicted.
C38_FlushEmptyIsNoOp ==
    [][(IsFlushStep /\ Len(strategy.currentBucket) = 0)
        => /\ Tumbling_flushReturns(strategy, now) = Null
           /\ strategy'.archivedBuckets = strategy.archivedBuckets
           /\ strategy'.bucketStartTime = strategy.bucketStartTime
           /\ strategy'.totalPushed = strategy.totalPushed
           /\ strategy'.totalEvicted = strategy.totalEvicted
           /\ strategy' = strategy
           /\ status' = "ok"]_vars

\* A window that was never pushed to has been flushed after its bucket start.
C38_Witness ==
    /\ Direct
    /\ strategy # NoStrategy
    /\ strategy.type = "tumbling"
    /\ lastOp = "flushCurrentBucket"
    /\ strategy.totalPushed = 0
    /\ strategy.currentBucket = <<>>
    /\ strategy.bucketStartTime < now

----------------------------------------------------------------------------
(* getMetricResult() over entries whose values are doubles *)

\* The entries in the window: error counts 0.1, 0.2 and 0.3 of two stages, a
\* latency and an invocation.
AggregateEntries ==
    { MkEntry("A", "errorCount", F64_divInt(1, 10), 0),
      MkEntry("B", "errorCount", F64_divInt(2, 10), 0),
      MkEntry("B", "errorCount", F64_divInt(3, 10), 0),
      MkEntry("A", "latency", F64_divInt(13, 10), 0),
      MkEntry("B", "stageInvocation", F64_fromInt(1), 0) }

\* The result of getMetricResult() computed from the entries of the window,
\* without windowInfo's times and computedAt.
F64_metricResultOf(entries) ==
    [latencyPercentiles |-> F64_computePercentiles(entries, "latency"),
     stagePercentiles   |-> F64_computeStagePercentiles(entries, "latency"),
     totalErrors        |-> F64_sumFrom(F64_zero,
                                ValuesOf(SelectSeq(entries,
                                    LAMBDA e : e.metric = "errorCount")), 1),
     stageErrors        |-> F64_computeStageErrors(entries),
     totalInvocations   |-> Len(SelectSeq(entries, LAMBDA e : e.metric = "stageInvocation")),
     entryCount         |-> Len(entries)]

\* One more entry is in the window.
AggregateAddEntry ==
    \E entry \in AggregateEntries :
        /\ OnPercentiles
        /\ Len(hist) < MaxSamples
        /\ hist' = Append(hist, entry)
        /\ lastOp' = "input"
        /\ call' = NoCall
        /\ UNCHANGED <<strategy, status, now, disturbed, pushes, collector, adapter, tree>>

CallGetMetricResult ==
    /\ OnPercentiles
    /\ lastOp' = "metricResult"
    /\ call' = [entries |-> hist, result |-> F64_metricResultOf(hist)]
    /\ UNCHANGED <<strategy, status, now, hist, disturbed, pushes, collector, adapter, tree>>

NextAggregate ==
    \/ AggregateAddEntry
    \/ CallGetMetricResult

SpecAggregate == InitPercentile /\ [][NextAggregate]_vars

\* The sum of the values of a map of doubles.
RECURSIVE F64_sumOfMap(_)
F64_sumOfMap(m) ==
    IF DOMAIN m = {} THEN F64_zero
    ELSE F64_add(F64_sumOfMap(MapDelete(m, CHOOSE k \in DOMAIN m : TRUE)),
                 m[CHOOSE k \in DOMAIN m : TRUE])

\* The sum of the counts of a map of percentile results.
RECURSIVE CountOfMap(_)
CountOfMap(m) ==
    IF DOMAIN m = {} THEN 0
    ELSE CountOfMap(MapDelete(m, CHOOSE k \in DOMAIN m : TRUE))
            + m[CHOOSE k \in DOMAIN m : TRUE].count

\* C39: in every result of getMetricResult, totalErrors is the sum of the values
\* of stageErrors, latencyPercentiles.count the sum of the counts of
\* stagePercentiles, totalInvocations the number of stageInvocation entries in
\* the window and windowInfo.entryCount the number of entries in the window.
C39_ResultConsistent ==
    lastOp = "metricResult"
        => /\ call.result.totalErrors = F64_sumOfMap(call.result.stageErrors)
           /\ call.result.latencyPercentiles.count
                = CountOfMap(call.result.stagePercentiles)
           /\ call.result.totalInvocations
                = Len(SelectSeq(call.entries, LAMBDA e : e.metric = "stageInvocation"))
           /\ call.result.entryCount = Len(call.entries)

\* The same without the sum of the errors.
C39_CountsConsistent ==
    lastOp = "metricResult"
        => /\ call.result.latencyPercentiles.count
                = CountOfMap(call.result.stagePercentiles)
           /\ call.result.totalInvocations
                = Len(SelectSeq(call.entries, LAMBDA e : e.metric = "stageInvocation"))
           /\ call.result.entryCount = Len(call.entries)

\* The sum of the values of a map of integers.
RECURSIVE SumOfMap(_)
SumOfMap(m) ==
    IF DOMAIN m = {} THEN 0
    ELSE SumOfMap(MapDelete(m, CHOOSE k \in DOMAIN m : TRUE)) + m[CHOOSE k \in DOMAIN m : TRUE]

\* What C39 says, for the three strategies holding entries with whole values.
C39_ConsistentOnWholeValues ==
    (Direct /\ strategy # NoStrategy)
        => /\ GetMetricResult(strategy, now).totalErrors
                = SumOfMap(GetMetricResult(strategy, now).stageErrors)
           /\ GetMetricResult(strategy, now).latencyPercentiles.count
                = CountOfMap(GetMetricResult(strategy, now).stagePercentiles)
           /\ GetMetricResult(strategy, now).totalInvocations
                = Len(SelectSeq(Held(AfterQuery(strategy, now)),
                                LAMBDA e : e.metric = "stageInvocation"))
           /\ GetMetricResult(strategy, now).windowInfo.entryCount
                = GetSnapshot(strategy, now).size

----------------------------------------------------------------------------
\* C40: getPath(id) returns, on every tree built by addStage and updateStage,
\* and what it returns for a stage of the tree is the way from a root down to
\* it: the last element is id, the first is a stage without parentId, and each
\* element is the parentId of the one after it.
C40_PathFromRoot ==
    /\ tree # NoTree => status # "hung"
    /\ (tree # NoTree /\ lastOp = "getPath" /\ call.id \in DOMAIN tree.stages)
        => /\ Len(call.path) >= 1
           /\ call.path[Len(call.path)] = call.id
           /\ call.path[1] \in DOMAIN tree.stages
           /\ tree.stages[call.path[1]].parentId = NoParent
           /\ \A i \in 1..(Len(call.path) - 1) :
                /\ call.path[i + 1] \in DOMAIN tree.stages
                /\ tree.stages[call.path[i + 1]].parentId = call.path[i]

\* The same for the trees in which every parentId is that of a stage added
\* before, whenever the call returns.
C40_PathWhenParentsFirst ==
    (/\ tree # NoTree
     /\ status = "ok"
     /\ lastOp = "getPath"
     /\ call.id \in DOMAIN tree.stages
     /\ \A j \in 1..Len(tree.insertionOrder) :
            tree.stages[tree.insertionOrder[j]].parentId # NoParent
                => \E i \in 1..(j - 1) :
                        tree.insertionOrder[i] = tree.stages[tree.insertionOrder[j]].parentId)
        => /\ Len(call.path) >= 1
           /\ call.path[Len(call.path)] = call.id
           /\ call.path[1] \in DOMAIN tree.stages
           /\ tree.stages[call.path[1]].parentId = NoParent
           /\ \A i \in 1..(Len(call.path) - 1) :
                /\ call.path[i + 1] \in DOMAIN tree.stages
                /\ tree.stages[call.path[i + 1]].parentId = call.path[i]
====
